---- MODULE Spec2Model ----
(***************************************************************************)
(* A model of the NextGen intelligence layer of Pagergotchi:               *)
(*   nextgen/bayesian_optimizer.py  BayesianOptimizer (history, best)      *)
(*   nextgen/tactical_engine.py     CaptureContext, TacticalEngine         *)
(*   nextgen/channel_bandit.py      ChannelBandit                          *)
(*   nextgen/__init__.py            NextGenBrain (per-epoch protocol)      *)
(*   nextgen/pineapd_adapter.py     PineapdAdapter (actuator dispatch)     *)
(*                                                                         *)
(* Each object is one variable holding a record of its fields.  Every      *)
(* method is a pure operator from the object's record (and the inputs) to  *)
(* the record after the call; the actions assign the result.  Floating     *)
(* point quantities are fixed point integers, the unit is stated where     *)
(* the quantity is defined.                                                *)
(***************************************************************************)
EXTENDS Integers, Sequences, FiniteSets, TLC

VARIABLES
    optimizer,      \* BayesianOptimizer: X_history, y_history, param_history, best_reward, best_params
    n_observed,     \* number of observe calls made so far (history variable)
    context,        \* CaptureContext: captured, pmkids, captured_clients, interactions, epoch_interactions
    engine,         \* TacticalEngine: max_interactions_per_epoch, max_targets_per_epoch, mode
    last_call,      \* the last call made on the engine or its context: its name and, for plan_epoch,
                    \* the set of APs handed in, the plan returned and the MACs at budget before the call

    bandit,         \* ChannelBandit: channels, window_size, exploration_bonus, mode, history,
                    \* total_scans, total_epochs, client_activity
    selection,      \* the last select_channels call, when it was the last call made on
                    \* the bandit: its k and the list it returned (k = 0: none)
    brain,          \* NextGenBrain: mode, timing, epoch counters, known_ap_macs
    loop,           \* the caller of the brain: phase of the epoch, the plan in hand, the
                    \* next entry to execute, epoch number, handshakes delivered
    agent,          \* the actuator: operations invoked so far, flag of the last attack
    state_file,     \* the file at STATE_FILE
    log,            \* history variable: every observation recorded on each channel of the
                    \* bandit, in arrival order, and every reward passed to observe
    restored,       \* the fresh bandit or optimizer after load_state(get_state()) of the
                    \* current one, while no later call has been made (<<>>: none)
    probe,          \* a channel identifier, the band channel_to_band gave for it and the
                    \* result of converting it to offset form and back
    boot,           \* the constructions of a NextGenBrain after the first: how many, and
                    \* the sensor's channel list, handshake directory and state-file
                    \* fault of the last one
    main            \* _do_nextgen_loop: position in the loop body, its local variables,
                    \* and the select_channels calls made since the last on_epoch

optVars == <<optimizer, n_observed>>

tacVars == <<context, engine, last_call>>

banditVars == <<bandit, selection>>

brainVars == <<brain, loop, agent, state_file>>

histVars == <<log, restored, probe, boot, main>>

vars == <<optimizer, n_observed, context, engine, last_call, bandit, selection,
          brain, loop, agent, state_file, log, restored, probe, boot, main>>

NoRestore == [bandit |-> <<>>, optimizer |-> <<>>]

----------------------------------------------------------------------------
(* Generic helpers *)

Min2(a, b) == IF a < b THEN a ELSE b

Max2(a, b) == IF a > b THEN a ELSE b

Range(s) == {s[i] : i \in 1..Len(s)}

\* Python's s[n:] on a list (n >= 0)
DropFirst(s, n) == IF n >= Len(s) THEN <<>> ELSE SubSeq(s, n + 1, Len(s))

\* Python's s[:n] on a list (n >= 0)
TakeFirst(s, n) == SubSeq(s, 1, Min2(n, Len(s)))

\* Python's s[-n:] on a list (n >= 1)
TakeLast(s, n) == IF n >= Len(s) THEN s ELSE SubSeq(s, Len(s) - n + 1, Len(s))

SeqMax(s) == CHOOSE m \in Range(s) : \A x \in Range(s) : x <= m

\* Python's s.index(v): the first position holding v, 0-based
IndexOf(s, v) == (CHOOSE i \in 1..Len(s) : s[i] = v /\ \A j \in 1..(i - 1) : s[j] # v) - 1

----------------------------------------------------------------------------
(* bayesian_optimizer.py *)

\* History cap.  The source sets 80; the model runs with a small cap so that
\* the eviction path is exercised over every order of rewards.
MAX_OBSERVATIONS == 3

\* Bound on the number of observe calls of one run
MaxObserve == 5

\* Rewards fed to observe are 0..MaxReward
MaxReward == 2

Rewards == 0..MaxReward

\* float('-inf'): below every reward
NegInf == -1

\* One timing parameter of TIMING_PARAMS with its (lo, hi) bounds
recon_lo == 5

recon_hi == 120

\* The parameter dicts fed to observe: {'recon_time': v}
ParamDicts == {[recon_time |-> v] : v \in {5, 120}}

\* _normalize: (val - lo) / (hi - lo), in thousandths
normalize(params_dict) ==
    <<IF recon_hi > recon_lo
        THEN ((params_dict.recon_time - recon_lo) * 1000) \div (recon_hi - recon_lo)
        ELSE 500>>

\* BayesianOptimizer.__init__: empty history, best_reward = -inf, best_params = None
\* (best_params is <<>> for None and <<dict>> otherwise)
OptimizerInit ==
    [X_history |-> <<>>, y_history |-> <<>>, param_history |-> <<>>,
     best_reward |-> NegInf, best_params |-> <<>>]

AppendObservationLastIsBest(o, params_dict, reward) ==
    [X_history |-> Append(o.X_history, normalize(params_dict)),
     y_history |-> Append(o.y_history, reward),
     param_history |-> Append(o.param_history, params_dict),
     best_reward |-> reward,
     best_params |-> <<params_dict>>]

\* observe, lines 246-252: append to the three arrays and track the best
AppendObservation(o, params_dict, reward) ==
    [X_history |-> Append(o.X_history, normalize(params_dict)),
     y_history |-> Append(o.y_history, reward),
     param_history |-> Append(o.param_history, params_dict),
     best_reward |-> IF reward > o.best_reward THEN reward ELSE o.best_reward,
     best_params |-> IF reward > o.best_reward THEN <<params_dict>> ELSE o.best_params]

MoveBestToKept(o) ==
    LET best_idx == IndexOf(o.y_history, SeqMax(o.y_history))
        kept == Len(o.X_history) - MAX_OBSERVATIONS + 1
    IN  IF best_idx < Len(o.X_history) - MAX_OBSERVATIONS + 1
          THEN [o EXCEPT !.X_history[kept] = o.X_history[best_idx + 1],
                         !.y_history[kept] = o.y_history[best_idx + 1],
                         !.param_history[kept] = o.param_history[best_idx + 1]]
          ELSE o

\* observe, lines 257-262: when the first maximum of y_history lies at an index
\* below len - MAX_OBSERVATIONS + 1, copy its entry over slot 0
MoveBestToFront(o) ==
    LET best_idx == IndexOf(o.y_history, SeqMax(o.y_history))
    IN  IF best_idx < Len(o.X_history) - MAX_OBSERVATIONS + 1
          THEN [o EXCEPT !.X_history[1] = o.X_history[best_idx + 1],
                         !.y_history[1] = o.y_history[best_idx + 1],
                         !.param_history[1] = o.param_history[best_idx + 1]]
          ELSE o

TrimHistoryNoCap(o) == o

\* observe, lines 265-268: drop the oldest len - MAX_OBSERVATIONS entries
TrimHistory(o) ==
    LET excess == Len(o.X_history) - MAX_OBSERVATIONS
    IN  [o EXCEPT !.X_history = DropFirst(o.X_history, excess),
                  !.y_history = DropFirst(o.y_history, excess),
                  !.param_history = DropFirst(o.param_history, excess)]

observe_trims_newest_reward(o, params_dict, reward) ==
    LET a == AppendObservation(o, params_dict, reward)
    IN  IF Len(a.X_history) > MAX_OBSERVATIONS
          THEN [TrimHistory(MoveBestToFront(a)) EXCEPT
                  !.y_history = TakeFirst(a.y_history, MAX_OBSERVATIONS)]
          ELSE a

\* BayesianOptimizer.observe
observe(o, params_dict, reward) ==
    LET a == AppendObservation(o, params_dict, reward)
    IN  IF Len(a.X_history) > MAX_OBSERVATIONS
          THEN TrimHistory(MoveBestToFront(a))
          ELSE a

Observe ==
    /\ n_observed < MaxObserve
    /\ \E p \in ParamDicts, r \in Rewards :
          /\ optimizer' = observe(optimizer, p, r)
          /\ log' = [log EXCEPT !.rewards = @ \cup {r}]
    /\ n_observed' = n_observed + 1
    /\ restored' = NoRestore
    /\ UNCHANGED <<tacVars, banditVars, brainVars, probe, boot, main>>


----------------------------------------------------------------------------
(* tactical_engine.py: CaptureContext *)

MODE_ACTIVE == "active"

MODE_PASSIVE == "passive"

MODE_ASSIST == "assist"

VALID_MODES == {MODE_ACTIVE, MODE_PASSIVE, MODE_ASSIST}

ATTACK_ASSOC_DEAUTH == "assoc_then_deauth"

ATTACK_DEAUTH_ONLY == "deauth_only"

ATTACK_BROADCAST_DEAUTH == "broadcast_deauth"

ATTACK_ASSOC_ONLY == "assoc_only"

ATTACK_SKIP == "skip"

\* str.lower() on the MAC and client strings of the model
Lower(s) ==
    CASE s = "AA" -> "aa"
      [] s = "BB" -> "bb"
      [] s = "C1" -> "c1"
      [] s = "C2" -> "c2"
      [] OTHER -> s

\* str.upper() on the encryption tags of the model
Upper(s) ==
    CASE s = "open" -> "OPEN"
      [] s = "wpa2" -> "WPA2"
      [] s = "wep" -> "WEP"
      [] OTHER -> s

\* Python's `tag in encryption` (substring test) on the upper-case tags
Contains(encryption, tag) ==
    tag \in (CASE encryption = "WPA2" -> {"WPA2", "WPA"}
               [] encryption = "WPA3" -> {"WPA3", "WPA"}
               [] encryption = "WPA" -> {"WPA"}
               [] encryption = "SAE" -> {"SAE"}
               [] encryption = "WEP" -> {"WEP"}
               [] encryption = "OPEN" -> {"OPEN"}
               [] OTHER -> {})

\* AP MACs as the callers pass them, and the keys they normalise to
MacInputs == {"aa", "AA", "bb"}

Macs == {Lower(m) : m \in MacInputs}

ClientMacs == {"c1", "c2"}

\* CaptureContext.__init__ over an empty handshake directory.
\* captured maps a MAC to the type of its entry ("none": no entry).
ContextInit ==
    [captured |-> [m \in Macs |-> "none"],
     pmkids |-> {},
     captured_clients |-> [m \in Macs |-> {}],
     interactions |-> [m \in Macs |-> 0],
     epoch_interactions |-> [m \in Macs |-> 0]]

has_handshake(ctx, mac) == ctx.captured[Lower(mac)] # "none"

has_pmkid(ctx, mac) == Lower(mac) \in ctx.pmkids

record_handshake_pmkid_set_only(ctx, mac, handshake_type, client_mac) ==
    LET m == Lower(mac)
    IN  [ctx EXCEPT
           !.captured[m] = IF handshake_type = "pmkid" THEN @ ELSE handshake_type,
           !.pmkids = IF handshake_type = "pmkid" THEN @ \cup {m} ELSE @,
           !.captured_clients[m] = IF client_mac # "" THEN @ \cup {Lower(client_mac)} ELSE @]

\* record_handshake(mac, handshake_type, client_mac); client_mac "" is None
record_handshake(ctx, mac, handshake_type, client_mac) ==
    LET m == Lower(mac)
    IN  [ctx EXCEPT
           !.captured[m] = handshake_type,
           !.pmkids = IF handshake_type = "pmkid" THEN @ \cup {m} ELSE @,
           !.captured_clients[m] = IF client_mac # "" THEN @ \cup {Lower(client_mac)} ELSE @]

get_session_interactions_of_epoch(ctx, mac) == ctx.epoch_interactions[Lower(mac)]

get_session_interactions(ctx, mac) == ctx.interactions[Lower(mac)]

get_epoch_interactions(ctx, mac) == ctx.epoch_interactions[Lower(mac)]

record_interaction_session_only(ctx, mac) ==
    LET m == Lower(mac)
    IN  [ctx EXCEPT !.interactions[m] = @ + 1]

record_interaction(ctx, mac) ==
    LET m == Lower(mac)
    IN  [ctx EXCEPT !.interactions[m] = @ + 1, !.epoch_interactions[m] = @ + 1]

new_epoch_clears_session(ctx) ==
    [ctx EXCEPT !.epoch_interactions = [m \in Macs |-> 0],
                !.interactions = [m \in Macs |-> 0]]

new_epoch(ctx) == [ctx EXCEPT !.epoch_interactions = [m \in Macs |-> 0]]

captured_macs(ctx) == {m \in Macs : ctx.captured[m] # "none"}

\* get_new_clients: the lower-cased MACs of the listed clients that are not in
\* the captured-client set of the AP, in list order
RECURSIVE get_new_clients(_, _, _)
get_new_clients(ctx, ap_mac, current_clients) ==
    IF current_clients = <<>> THEN <<>>
    ELSE LET client_mac == Lower(Head(current_clients).mac)
             rest == get_new_clients(ctx, ap_mac, Tail(current_clients))
         IN  IF client_mac # "" /\ client_mac \notin ctx.captured_clients[Lower(ap_mac)]
               THEN <<client_mac>> \o rest
               ELSE rest

----------------------------------------------------------------------------
(* tactical_engine.py: TacticalEngine.  Scores are in units of 0.5.       *)
(* A client or AP carries its age = now - last_seen in seconds.           *)

\* sum(1 for c in clients if c.last_seen > now - 120)
RECURSIVE active_clients(_)
active_clients(clients) ==
    IF clients = <<>> THEN 0
    ELSE (IF Head(clients).age < 120 THEN 1 ELSE 0) + active_clients(Tail(clients))

score_active_session_budget(ctx, eng, ap) ==
    LET mac == Lower(ap.mac)
        encryption == Upper(ap.encryption)
        clients == ap.clients
        new_clients == get_new_clients(ctx, mac, clients)
        enc_score == IF Contains(encryption, "WPA3") \/ Contains(encryption, "SAE") THEN 6
                     ELSE IF Contains(encryption, "WPA2") \/ Contains(encryption, "WPA") THEN 20
                     ELSE IF Contains(encryption, "WEP") THEN 2
                     ELSE 0
        client_score == Min2(Len(clients) * 6, 30) + active_clients(clients) * 4
        rssi_score == IF ap.rssi > -50 THEN 10
                      ELSE IF ap.rssi > -65 THEN 6
                      ELSE IF ap.rssi > -75 THEN 3
                      ELSE IF ap.rssi > -85 THEN 1
                      ELSE 0
        fresh_score == IF ap.age < 60 THEN 6 ELSE IF ap.age < 300 THEN 2 ELSE 0
    IN  IF encryption \in {"", "OPEN"} THEN -1000
        ELSE IF has_handshake(ctx, mac)
          THEN IF new_clients = <<>> THEN -2000
               ELSE IF get_epoch_interactions(ctx, mac) >= eng.max_interactions_per_epoch THEN -200
               ELSE Min2(Len(new_clients) * 4, 16) - get_session_interactions(ctx, mac) * 3
        ELSE IF get_session_interactions(ctx, mac) >= eng.max_interactions_per_epoch THEN -200
        ELSE enc_score + client_score + rssi_score + fresh_score
               - get_session_interactions(ctx, mac) * 2

score_active(ctx, eng, ap) ==
    LET mac == Lower(ap.mac)
        encryption == Upper(ap.encryption)
        clients == ap.clients
        new_clients == get_new_clients(ctx, mac, clients)
        enc_score == IF Contains(encryption, "WPA3") \/ Contains(encryption, "SAE") THEN 6
                     ELSE IF Contains(encryption, "WPA2") \/ Contains(encryption, "WPA") THEN 20
                     ELSE IF Contains(encryption, "WEP") THEN 2
                     ELSE 0
        client_score == Min2(Len(clients) * 6, 30) + active_clients(clients) * 4
        rssi_score == IF ap.rssi > -50 THEN 10
                      ELSE IF ap.rssi > -65 THEN 6
                      ELSE IF ap.rssi > -75 THEN 3
                      ELSE IF ap.rssi > -85 THEN 1
                      ELSE 0
        fresh_score == IF ap.age < 60 THEN 6 ELSE IF ap.age < 300 THEN 2 ELSE 0
    IN  IF encryption \in {"", "OPEN"} THEN -1000
        ELSE IF has_handshake(ctx, mac)
          THEN IF new_clients = <<>> THEN -2000
               ELSE IF get_epoch_interactions(ctx, mac) >= eng.max_interactions_per_epoch THEN -200
               ELSE Min2(Len(new_clients) * 4, 16) - get_session_interactions(ctx, mac) * 3
        ELSE IF get_epoch_interactions(ctx, mac) >= eng.max_interactions_per_epoch THEN -200
        ELSE enc_score + client_score + rssi_score + fresh_score
               - get_session_interactions(ctx, mac) * 2

score_passive(ctx, eng, ap) ==
    LET encryption == Upper(ap.encryption)
        rssi_score == IF ap.rssi > -50 THEN 6
                      ELSE IF ap.rssi > -65 THEN 4
                      ELSE IF ap.rssi > -75 THEN 2
                      ELSE 0
    IN  IF encryption \in {"", "OPEN"} THEN -1000
        ELSE (IF has_handshake(ctx, ap.mac) THEN -10 ELSE 0)
               + Len(ap.clients) * 10 + active_clients(ap.clients) * 8 + rssi_score

score_assist_scores_open(ctx, eng, ap) ==
    LET encryption == Upper(ap.encryption)
        rssi_score == IF ap.rssi > -50 THEN 8
                      ELSE IF ap.rssi > -65 THEN 6
                      ELSE IF ap.rssi > -75 THEN 3
                      ELSE IF ap.rssi > -85 THEN 1
                      ELSE 0
    IN  IF encryption \in {"OPEN"} THEN -1000
        ELSE Len(ap.clients) * 16 + active_clients(ap.clients) * 10 + rssi_score + 2

score_assist(ctx, eng, ap) ==
    LET encryption == Upper(ap.encryption)
        rssi_score == IF ap.rssi > -50 THEN 8
                      ELSE IF ap.rssi > -65 THEN 6
                      ELSE IF ap.rssi > -75 THEN 3
                      ELSE IF ap.rssi > -85 THEN 1
                      ELSE 0
    IN  IF encryption \in {"", "OPEN"} THEN -1000
        ELSE Len(ap.clients) * 16 + active_clients(ap.clients) * 10 + rssi_score + 2

score_target(ctx, eng, ap) ==
    IF eng.mode = MODE_PASSIVE THEN score_passive(ctx, eng, ap)
    ELSE IF eng.mode = MODE_ASSIST THEN score_assist(ctx, eng, ap)
    ELSE score_active(ctx, eng, ap)

select_attack_active_ignores_pmkid(ctx, ap) ==
    IF ap.clients = <<>> THEN ATTACK_ASSOC_ONLY ELSE ATTACK_ASSOC_DEAUTH

select_attack_active(ctx, ap) ==
    IF has_pmkid(ctx, ap.mac)
      THEN IF ap.clients # <<>> THEN ATTACK_DEAUTH_ONLY ELSE ATTACK_SKIP
    ELSE IF ap.clients = <<>> THEN ATTACK_ASSOC_ONLY
    ELSE ATTACK_ASSOC_DEAUTH

select_attack_assist(ap) ==
    IF ap.clients = <<>> THEN ATTACK_ASSOC_ONLY ELSE ATTACK_BROADCAST_DEAUTH

select_attack_no_passive(ctx, eng, ap) ==
    IF eng.mode = MODE_ASSIST THEN select_attack_assist(ap)
    ELSE select_attack_active(ctx, ap)

select_attack(ctx, eng, ap) ==
    IF eng.mode = MODE_PASSIVE THEN ATTACK_SKIP
    ELSE IF eng.mode = MODE_ASSIST THEN select_attack_assist(ap)
    ELSE select_attack_active(ctx, ap)

\* plan_epoch, lines 442-448: the (ap, attack, score) entries of the APs with
\* score > 0 and an attack other than SKIP, in list order
RECURSIVE scored_targets(_, _, _)
scored_targets(ctx, eng, all_aps) ==
    IF all_aps = <<>> THEN <<>>
    ELSE LET ap == Head(all_aps)
             score == score_target(ctx, eng, ap)
             attack == select_attack(ctx, eng, ap)
             rest == scored_targets(ctx, eng, Tail(all_aps))
         IN  IF score > 0 /\ attack # ATTACK_SKIP
               THEN <<[ap |-> ap, attack |-> attack, score |-> score]>> \o rest
               ELSE rest

\* list.sort(key=score, reverse=True): stable, descending by score
RECURSIVE InsertByScore(_, _)
InsertByScore(sorted, e) ==
    IF sorted = <<>> THEN <<e>>
    ELSE IF Head(sorted).score >= e.score
      THEN <<Head(sorted)>> \o InsertByScore(Tail(sorted), e)
      ELSE <<e>> \o sorted

sort_by_score_unsorted(scored) == scored

RECURSIVE sort_by_score(_)
sort_by_score(scored) ==
    IF scored = <<>> THEN <<>>
    ELSE InsertByScore(sort_by_score(SubSeq(scored, 1, Len(scored) - 1)), scored[Len(scored)])

plan_epoch_no_reset(ctx, eng, all_aps) ==
    [context |-> ctx,
     plan |-> IF eng.mode = MODE_PASSIVE THEN <<>>
              ELSE TakeFirst(sort_by_score(scored_targets(ctx, eng, all_aps)),
                             eng.max_targets_per_epoch)]

\* TacticalEngine.plan_epoch: the context after the call and the returned plan
plan_epoch(ctx, eng, all_aps) ==
    LET c == new_epoch(ctx)
    IN  [context |-> c,
         plan |-> IF eng.mode = MODE_PASSIVE THEN <<>>
                  ELSE TakeFirst(sort_by_score(scored_targets(c, eng, all_aps)),
                                 eng.max_targets_per_epoch)]

----------------------------------------------------------------------------
(* channel_bandit.py.  Rewards, weights and scores are in units of 0.1.   *)
(* A history holds the rewards in arrival order; the timestamp stored     *)
(* with each reward is never read by the bandit and is left out.          *)

CHANNELS_2G == 1..14

CHANNELS_5G ==
    {36, 40, 44, 48, 52, 56, 60, 64, 100, 104, 108, 112, 116, 120, 124, 128,
     132, 136, 140, 144, 149, 153, 157, 161, 165, 169, 173, 177}

RAW_6G_CHANNELS ==
    {1, 5, 9, 13, 17, 21, 25, 29, 33, 37, 41, 45,
     49, 53, 57, 61, 65, 69, 73, 77, 81, 85, 89, 93}

OFFSET_6G == 190

raw_6g_to_offset_identity(raw_channel) == raw_channel

raw_6g_to_offset(raw_channel) == raw_channel + OFFSET_6G

offset_to_raw_6g(offset_channel) == offset_channel - OFFSET_6G

CHANNELS_6G == {raw_6g_to_offset(ch) : ch \in RAW_6G_CHANNELS}

channel_to_band(channel) ==
    IF channel \in CHANNELS_6G THEN "6G"
    ELSE IF channel \in CHANNELS_5G THEN "5G"
    ELSE IF channel \in CHANNELS_2G THEN "2G"
    ELSE IF channel > 177 THEN "6G"
    ELSE IF channel > 14 THEN "5G"
    ELSE "2G"

\* The keys of ChannelBandit._bands, in insertion order
BandNames == <<"2G", "5G", "6G">>

\* Python's [x for x in s if x in keep]
RECURSIVE FilterSeq(_, _)
FilterSeq(s, keep) ==
    IF s = <<>> THEN <<>>
    ELSE (IF Head(s) \in keep THEN <<Head(s)>> ELSE <<>>) \o FilterSeq(Tail(s), keep)

RECURSIVE SeqSum(_)
SeqSum(s) == IF s = <<>> THEN 0 ELSE Head(s) + SeqSum(Tail(s))

RECURSIVE Factorial(_)
Factorial(n) == IF n <= 1 THEN 1 ELSE n * Factorial(n - 1)

\* ChannelBandit._bands[band]: the configured channels of the band, in list order
BandChannels(b, band) ==
    FilterSeq(b.channels, {c \in Range(b.channels) : channel_to_band(c) = band})

\* The channel numbers used as keys of the bandit's defaultdicts: four
\* configured channels over three bands and one that is not configured
ChannelKeys == {1, 6, 11, 36, 191}

\* Nothing recorded yet
LogInit == [observations |-> [c \in ChannelKeys |-> <<>>], rewards |-> {}]

\* ChannelBandit.__init__(channels, window_size, exploration_bonus=0.1, mode);
\* a defaultdict is a function with its default at every key not yet written
BanditInit(channels, window_size, mode) ==
    [channels |-> channels,
     window_size |-> window_size,
     exploration_bonus |-> 1,
     mode |-> mode,
     history |-> [c \in ChannelKeys |-> <<>>],
     total_scans |-> [c \in ChannelKeys |-> 0],
     total_epochs |-> 0,
     client_activity |-> [c \in ChannelKeys |-> <<>>]]

windowed_history_oldest(b, channel) ==
    IF Len(b.history[channel]) > b.window_size
      THEN TakeFirst(b.history[channel], b.window_size)
      ELSE b.history[channel]

\* _get_windowed_stats, lines 156-159: the stored history of the channel after
\* the lazy truncation
windowed_history(b, channel) ==
    IF Len(b.history[channel]) > b.window_size
      THEN TakeLast(b.history[channel], b.window_size)
      ELSE b.history[channel]

\* _get_windowed_stats, lines 161-163: (successes, failures) over that history
get_windowed_stats(b, channel) ==
    LET history == windowed_history(b, channel)
        successes == Cardinality({i \in 1..Len(history) : history[i] > 0})
    IN  <<successes, Len(history) - successes>>

\* The bandit after _get_windowed_stats has run for every configured channel
truncate_all(b) ==
    [b EXCEPT !.history = [c \in DOMAIN b.history |->
                              IF c \in Range(b.channels) THEN windowed_history(b, c)
                              ELSE b.history[c]]]

record_client_activity(b, channel, client_count) ==
    LET history == Append(b.client_activity[channel], client_count)
    IN  [b EXCEPT !.client_activity[channel] =
            IF Len(history) > b.window_size THEN TakeLast(history, b.window_size) ELSE history]

\* boost(channel, weight): a synthetic observation, scan counters untouched
boost_counts_scan(b, channel, weight) ==
    IF channel \in Range(b.channels)
      THEN [b EXCEPT !.history[channel] = Append(@, weight),
                     !.total_scans[channel] = @ + 1]
      ELSE b

boost(b, channel, weight) ==
    IF channel \in Range(b.channels)
      THEN [b EXCEPT !.history[channel] = Append(@, weight)]
      ELSE b

\* update(channel, reward)
update(b, channel, reward) ==
    [b EXCEPT !.history[channel] = Append(@, reward),
              !.total_scans[channel] = @ + 1,
              !.total_epochs = @ + 1]

\* The unit of the selection scores is 0.1 / window_size!, so that the mean of
\* a client-activity window of any length up to window_size is a whole number
ScoreUnit(b) == Factorial(b.window_size)

\* _get_avg_client_activity * 0.3
activity_bias(b, channel) ==
    LET history == b.client_activity[channel]
    IN  IF history = <<>> THEN 0
        ELSE (3 * SeqSum(history) * ScoreUnit(b)) \div Len(history)

\* The score of a channel in _select_active / _select_passive / _select_assist:
\* draw is the outcome of random.betavariate, jitter that of random.random() * 0.3
channel_score(b, channel, draw, jitter) ==
    LET unscanned == b.total_scans[channel] = 0
    IN  IF b.mode = MODE_PASSIVE
          THEN draw * ScoreUnit(b) + activity_bias(b, channel)
                 + (IF unscanned THEN b.exploration_bonus * ScoreUnit(b) ELSE 0)
        ELSE IF b.mode = MODE_ASSIST
          THEN (draw + jitter) * ScoreUnit(b)
                 + (IF unscanned THEN b.exploration_bonus * 2 * ScoreUnit(b) ELSE 0)
        ELSE draw * ScoreUnit(b)
                 + (IF unscanned THEN b.exploration_bonus * ScoreUnit(b) ELSE 0)

\* The scores dict built by the loop over self.channels
channel_scores(b, draw, jitter) ==
    [c \in Range(b.channels) |-> channel_score(b, c, draw[c], jitter[c])]

\* sorted(scores.keys(), key=scores.get, reverse=True): stable, descending
RECURSIVE InsertByKey(_, _, _)
InsertByKey(sorted, c, scores) ==
    IF sorted = <<>> THEN <<c>>
    ELSE IF scores[Head(sorted)] >= scores[c]
      THEN <<Head(sorted)>> \o InsertByKey(Tail(sorted), c, scores)
      ELSE <<c>> \o sorted

RECURSIVE ranked_channels(_, _)
ranked_channels(channels, scores) ==
    IF channels = <<>> THEN <<>>
    ELSE InsertByKey(ranked_channels(SubSeq(channels, 1, Len(channels) - 1), scores),
                     channels[Len(channels)], scores)

\* [c for c in self.channels if self._total_scans[c] == 0]
unscanned_channels(b) == {c \in Range(b.channels) : b.total_scans[c] = 0}

\* The unscanned rule fires: some channel is unscanned and none of them is selected
needs_unscanned(b, selected) ==
    /\ unscanned_channels(b) # {}
    /\ Range(selected) \cap unscanned_channels(b) = {}

\* lines 225-227: selected[-1] = random.choice(unscanned); choice is the outcome
ensure_unscanned(b, selected, choice) ==
    IF needs_unscanned(b, selected)
      THEN [selected EXCEPT ![Len(selected)] = choice]
      ELSE selected

\* max(band_channels, key=scores.get): the first channel with the highest score
best_of_band(band_channels, scores) ==
    band_channels[CHOOSE i \in 1..Len(band_channels) :
        /\ \A j \in 1..Len(band_channels) : scores[band_channels[j]] <= scores[band_channels[i]]
        /\ \A j \in 1..(i - 1) : scores[band_channels[j]] < scores[band_channels[i]]]

\* min(range(len(selected)), key=...): the first index with the lowest score
worst_index(selected, scores) ==
    CHOOSE i \in 1..Len(selected) :
        /\ \A j \in 1..Len(selected) : scores[selected[j]] >= scores[selected[i]]
        /\ \A j \in 1..(i - 1) : scores[selected[j]] > scores[selected[i]]

\* _ensure_band_diversity, the loop over the bands from position n on:
\* represented is bands_represented
RECURSIVE diversity_loop(_, _, _, _, _)
diversity_loop(b, selected, scores, represented, n) ==
    IF n > Len(BandNames) THEN selected
    ELSE LET band == BandNames[n]
         IN  IF BandChannels(b, band) # <<>> /\ band \notin represented /\ Len(selected) > 0
               THEN diversity_loop(b,
                        [selected EXCEPT ![worst_index(selected, scores)] =
                            best_of_band(BandChannels(b, band), scores)],
                        scores, represented \cup {band}, n + 1)
               ELSE diversity_loop(b, selected, scores, represented, n + 1)

ensure_band_diversity(b, selected, scores) ==
    diversity_loop(b, selected, scores,
                   {channel_to_band(selected[i]) : i \in 1..Len(selected)}, 1)

top_ranked_untruncated(b, k, scores) == ranked_channels(b.channels, scores)

\* ranked[:k]
top_ranked(b, k, scores) == TakeFirst(ranked_channels(b.channels, scores), k)

\* _select_active / _select_passive / _select_assist after the scoring loop:
\* the returned list
select_by_mode(b, k, scores, choice) ==
    LET selected == ensure_unscanned(b, top_ranked(b, k, scores), choice)
    IN  IF b.mode # MODE_PASSIVE /\ k >= 3
          THEN ensure_band_diversity(b, selected, scores)
          ELSE selected

\* ChannelBandit.select_channels(k): the returned list
select_channels(b, k, scores, choice) ==
    IF k >= Len(b.channels) THEN b.channels
    ELSE select_by_mode(b, k, scores, choice)

\* ChannelBandit.select_channels(k): the bandit after the call
after_select_channels(b, k) ==
    IF k >= Len(b.channels) THEN b ELSE truncate_all(b)

----------------------------------------------------------------------------
(* tactical_engine.py, RewardV2.  Rewards are in thousandths.              *)

\* RewardV2.__call__(epoch_data)
RewardV2(epoch_data) ==
    LET duration == Max2(epoch_data.duration_secs, 1)
        capture_rate == ((epoch_data.new_unique_handshakes * 1000
                            + epoch_data.repeat_handshakes * 100) * 60) \div duration
        total_attacked == Max2(epoch_data.targets_attacked, 1)
        efficiency == (epoch_data.uncaptured_targets_attacked * 1000) \div total_attacked
        exploration == Min2(epoch_data.new_aps_discovered * 100, 300)
        total_channels_scanned == Max2(epoch_data.channels_scanned, 1)
        coverage == (epoch_data.channels_with_activity * 1000) \div total_channels_scanned
    IN  capture_rate + (3 * efficiency) \div 10 + exploration \div 10 + coverage \div 10

----------------------------------------------------------------------------
(* pineapd_adapter.py.  raises tells which operations of the agent raise:  *)
(* associate, broadcast_deauth, and the positions of the clients whose     *)
(* deauth raises.  Each operator gives the returned flag, the number of    *)
(* operations it invoked on the agent and how many of them raised.         *)

associate_only(ap, raises) ==
    [ok |-> ~raises.associate, calls |-> 1, errors |-> IF raises.associate THEN 1 ELSE 0]

broadcast_deauth(ap, raises) ==
    [ok |-> ~raises.broadcast_deauth, calls |-> 1,
     errors |-> IF raises.broadcast_deauth THEN 1 ELSE 0]

\* The deauth loop over the clients: whether any deauth went through
deauth_each(ap, raises) ==
    [ok |-> \E i \in 1..Len(ap.clients) : i \notin raises.deauth,
     calls |-> Len(ap.clients),
     errors |-> Cardinality({i \in 1..Len(ap.clients) : i \in raises.deauth})]

deauth_clients(ap, raises) ==
    IF ap.clients = <<>> THEN broadcast_deauth(ap, raises)
    ELSE deauth_each(ap, raises)

assoc_then_deauth(ap, raises) ==
    LET a == associate_only(ap, raises)
        d == IF ap.clients # <<>> THEN deauth_each(ap, raises)
             ELSE broadcast_deauth(ap, raises)
    IN  [ok |-> TRUE, calls |-> a.calls + d.calls, errors |-> a.errors + d.errors]

NotExecuted == [ok |-> FALSE, calls |-> 0, errors |-> 0]

\* PineapdAdapter.execute_attack(ap, attack_type)
adapter_execute_attack(ap, attack_type, raises) ==
    IF attack_type = ATTACK_SKIP THEN NotExecuted
    ELSE IF ap.mac = "" THEN NotExecuted
    ELSE IF attack_type = ATTACK_ASSOC_DEAUTH THEN assoc_then_deauth(ap, raises)
    ELSE IF attack_type = ATTACK_DEAUTH_ONLY THEN deauth_clients(ap, raises)
    ELSE IF attack_type = ATTACK_BROADCAST_DEAUTH THEN broadcast_deauth(ap, raises)
    ELSE IF attack_type = ATTACK_ASSOC_ONLY THEN associate_only(ap, raises)
    ELSE NotExecuted

----------------------------------------------------------------------------
(* nextgen/__init__.py, NextGenBrain.  The brain record holds the fields   *)
(* of the orchestrator itself; its bandit, context, engine and optimizer   *)
(* are the records above.                                                  *)

\* __init__ with no state file: timing is the first suggestion (<<>>: None)
BrainInit(mode, timing) ==
    [mode |-> mode,
     has_optimizer |-> mode # MODE_PASSIVE,
     current_timing |-> IF mode # MODE_PASSIVE THEN <<timing>> ELSE <<>>,
     epoch_new_handshakes |-> 0,
     epoch_repeat_handshakes |-> 0,
     epoch_targets_attacked |-> 0,
     epoch_uncaptured_attacked |-> 0,
     epoch_channels_scanned |-> 0,
     epoch_channels_with_activity |-> 0,
     epoch_new_aps |-> 0,
     known_ap_macs |-> {}]

\* plan_attacks, lines 201-205: the MACs counted as new, one count per MAC
new_ap_macs(br, access_points) ==
    {Lower(access_points[i].mac) : i \in 1..Len(access_points)} \ (br.known_ap_macs \cup {""})

\* The keys of channel_clients in insertion order
RECURSIVE channel_order(_)
channel_order(access_points) ==
    IF access_points = <<>> THEN <<>>
    ELSE LET before == channel_order(SubSeq(access_points, 1, Len(access_points) - 1))
             ch == access_points[Len(access_points)].channel
         IN  IF ch > 0 /\ ch \notin Range(before) THEN Append(before, ch) ELSE before

\* channel_clients[ch]
channel_clients(access_points, ch) ==
    SeqSum([i \in 1..Len(access_points) |->
               IF access_points[i].channel = ch THEN Len(access_points[i].clients) ELSE 0])

\* plan_attacks, lines 213-220: record_client_activity and boost for each key;
\* the weight min(count * 0.1, 0.5) is in tenths
RECURSIVE feed_bandit(_, _, _)
feed_bandit(b, access_points, chs) ==
    IF chs = <<>> THEN b
    ELSE LET count == channel_clients(access_points, Head(chs))
             recorded == record_client_activity(b, Head(chs), count)
         IN  feed_bandit(IF count > 0 THEN boost(recorded, Head(chs), Min2(count, 5))
                         ELSE recorded,
                         access_points, Tail(chs))

\* NextGenBrain.plan_attacks(access_points): the objects after the call and
\* the returned plan
plan_attacks(br, b, ctx, eng, access_points) ==
    LET r == plan_epoch(ctx, eng, access_points)
        uncaptured == {i \in 1..Len(r.plan) : ~has_handshake(r.context, r.plan[i].ap.mac)}
    IN  [brain |-> [br EXCEPT
                      !.known_ap_macs = @ \cup new_ap_macs(br, access_points),
                      !.epoch_new_aps = @ + Cardinality(new_ap_macs(br, access_points)),
                      !.epoch_targets_attacked = Len(r.plan),
                      !.epoch_uncaptured_attacked = Cardinality(uncaptured)],
         bandit |-> feed_bandit(b, access_points, channel_order(access_points)),
         context |-> r.context,
         plan |-> r.plan]

execute_attack_skips_captured(ctx, ap, attack_type, raises) ==
    IF attack_type = ATTACK_SKIP
      THEN [context |-> ctx, ok |-> FALSE, calls |-> 0, errors |-> 0]
    ELSE LET r == adapter_execute_attack(ap, attack_type, raises)
         IN  [context |-> IF Lower(ap.mac) # "" /\ ~has_handshake(ctx, ap.mac)
                            THEN record_interaction(ctx, Lower(ap.mac))
                            ELSE ctx,
              ok |-> r.ok,
              calls |-> r.calls,
              errors |-> r.errors]

\* NextGenBrain.execute_attack(ap, attack_type): the context after the call,
\* the returned flag, the number of operations invoked on the agent and how
\* many of them raised
execute_attack(ctx, ap, attack_type, raises) ==
    IF attack_type = ATTACK_SKIP
      THEN [context |-> ctx, ok |-> FALSE, calls |-> 0, errors |-> 0]
    ELSE LET r == adapter_execute_attack(ap, attack_type, raises)
         IN  [context |-> IF Lower(ap.mac) # "" THEN record_interaction(ctx, Lower(ap.mac))
                          ELSE ctx,
              ok |-> r.ok,
              calls |-> r.calls,
              errors |-> r.errors]

on_handshake_always_new(br, b, ctx, ap_mac, channel) ==
    [brain |-> [br EXCEPT !.epoch_new_handshakes = @ + 1],
     context |-> record_handshake(ctx, Lower(ap_mac), "full", ""),
     bandit |-> IF channel > 0 THEN update(b, channel, 10) ELSE b]

\* NextGenBrain.on_handshake(ap_mac, channel): reward 1.0 is 10 tenths
on_handshake(br, b, ctx, ap_mac, channel) ==
    LET is_new == ~has_handshake(ctx, Lower(ap_mac))
    IN  [brain |-> IF is_new THEN [br EXCEPT !.epoch_new_handshakes = @ + 1]
                   ELSE [br EXCEPT !.epoch_repeat_handshakes = @ + 1],
         context |-> record_handshake(ctx, Lower(ap_mac), "full", ""),
         bandit |-> IF channel > 0 THEN update(b, channel, 10) ELSE b]

\* str(ch), the form of a channel key in the saved state
ChannelStr(ch) ==
    CASE ch = 1 -> "1"
      [] ch = 6 -> "6"
      [] ch = 11 -> "11"
      [] ch = 36 -> "36"
      [] ch = 191 -> "191"

\* int(ch_str)
ChannelInt(ch_str) == CHOOSE ch \in ChannelKeys : ChannelStr(ch) = ch_str

ChannelStrs == {ChannelStr(ch) : ch \in ChannelKeys}

\* ChannelBandit.get_state() as json.dump writes it: every key a string
bandit_get_state(b) ==
    [channels |-> b.channels,
     window_size |-> b.window_size,
     exploration_bonus |-> b.exploration_bonus,
     mode |-> b.mode,
     history |-> [k \in ChannelStrs |-> b.history[ChannelInt(k)]],
     total_scans |-> [k \in ChannelStrs |-> b.total_scans[ChannelInt(k)]],
     total_epochs |-> b.total_epochs,
     client_activity |-> [k \in ChannelStrs |-> b.client_activity[ChannelInt(k)]]]

\* The posterior parameters of a channel: alpha = 1 + successes,
\* beta = 1 + failures
posterior(b, channel) ==
    [alpha |-> 1 + get_windowed_stats(b, channel)[1],
     beta |-> 1 + get_windowed_stats(b, channel)[2]]

\* ChannelBandit.get_stats(): scans and windowed counts of every configured channel
get_stats(b) ==
    [c \in Range(b.channels) |->
        [scans |-> b.total_scans[c],
         successes_windowed |-> get_windowed_stats(b, c)[1],
         failures_windowed |-> get_windowed_stats(b, c)[2]]]

bandit_load_state_keeps_window(b, state) ==
    [b EXCEPT
       !.exploration_bonus = state.exploration_bonus,
       !.history = [c \in ChannelKeys |-> state.history[ChannelStr(c)]],
       !.total_scans = [c \in ChannelKeys |-> state.total_scans[ChannelStr(c)]],
       !.total_epochs = state.total_epochs,
       !.client_activity = [c \in ChannelKeys |-> state.client_activity[ChannelStr(c)]]]

\* ChannelBandit.load_state(state) for a state that holds every field; the
\* channel list and the mode of the receiving bandit are not assigned
bandit_load_state(b, state) ==
    [b EXCEPT
       !.window_size = state.window_size,
       !.exploration_bonus = state.exploration_bonus,
       !.history = [c \in ChannelKeys |-> state.history[ChannelStr(c)]],
       !.total_scans = [c \in ChannelKeys |-> state.total_scans[ChannelStr(c)]],
       !.total_epochs = state.total_epochs,
       !.client_activity = [c \in ChannelKeys |-> state.client_activity[ChannelStr(c)]]]

\* BayesianOptimizer.get_state(): the items that change after construction
optimizer_get_state(o) ==
    [X_history |-> o.X_history,
     y_history |-> o.y_history,
     param_history |-> o.param_history,
     best_reward |-> o.best_reward,
     best_params |-> o.best_params]

optimizer_load_state_default_best(o, state) ==
    [o EXCEPT !.X_history = state.X_history,
              !.y_history = state.y_history,
              !.param_history = state.param_history]

\* BayesianOptimizer.load_state(state) for a state that holds every field
optimizer_load_state(o, state) ==
    [o EXCEPT !.X_history = state.X_history,
              !.y_history = state.y_history,
              !.param_history = state.param_history,
              !.best_reward = state.best_reward,
              !.best_params = state.best_params]

\* The keys of the dict returned by BayesianOptimizer.get_state
OptimizerStateKeys == {"X_history", "y_history", "param_history", "best_reward", "best_params"}

\* BayesianOptimizer.load_state(state) for a dict that holds the keys of
\* present only: state.get(key, default) for each field
optimizer_load_state_get(o, state, present) ==
    [o EXCEPT !.X_history = IF "X_history" \in present THEN state.X_history ELSE <<>>,
              !.y_history = IF "y_history" \in present THEN state.y_history ELSE <<>>,
              !.param_history = IF "param_history" \in present
                                  THEN state.param_history ELSE <<>>,
              !.best_reward = IF "best_reward" \in present THEN state.best_reward ELSE NegInf,
              !.best_params = IF "best_params" \in present THEN state.best_params ELSE <<>>]

\* The state file: absent, complete with its content, or partial (opened for
\* writing and not written to the end)
NoStateFile == [status |-> "absent", content |-> <<>>]

SaveOutcomes == {"ok", "raise_before_open", "raise_in_dump"}

\* _save_state(): the state file after the call; every exception is caught
save_state(br, b, o, ctx, outcome, file) ==
    IF outcome = "ok"
      THEN [status |-> "complete",
            content |-> <<[mode |-> br.mode,
                           bandit |-> bandit_get_state(b),
                           optimizer |-> IF br.has_optimizer
                                           THEN <<optimizer_get_state(o)>> ELSE <<>>,
                           captured_macs |-> captured_macs(ctx),
                           known_ap_macs |-> br.known_ap_macs]>>]
    ELSE IF outcome = "raise_in_dump" THEN [status |-> "partial", content |-> <<>>]
    ELSE file

\* Python's sorted(S) for a set of channel numbers
RECURSIVE SortedSeq(_)
SortedSeq(S) ==
    IF S = {} THEN <<>>
    ELSE LET least == CHOOSE x \in S : \A y \in S : x <= y
         IN  <<least>> \o SortedSeq(S \ {least})

construct_channels_unfiltered(supported) ==
    LET channels == IF supported = <<>> THEN [i \in 1..11 |-> i] ELSE supported
    IN  SortedSeq(Range(channels))

\* NextGenBrain.__init__, lines 72-94: the channel list handed to the bandit.
\* supported is agent._supported_channels (<<>>: missing or empty)
construct_channels(supported) ==
    LET channels == IF supported = <<>> THEN [i \in 1..11 |-> i] ELSE supported
    IN  FilterSeq(SortedSeq(Range(channels)), {ch \in Range(channels) : ch <= 177})

\* CaptureContext.__init__ over a handshake directory; files is the set of
\* MACs that _extract_mac finds in the names of its capture files
CaptureContextInit(files) ==
    [ContextInit EXCEPT !.captured = [m \in Macs |-> IF m \in files THEN "file" ELSE "none"]]

\* What is wrong with the state file, for a file that json.load accepts:
\* nothing, not JSON after all, a total_scans key of the bandit entry that
\* int() rejects, or an optimizer entry that is not a dict
LoadFaults == {"none", "json", "bandit_total_scans", "optimizer"}

\* ChannelBandit.load_state(state) up to the exception raised in the loop
\* over state['total_scans']
bandit_load_state_until_total_scans(b, state) ==
    [b EXCEPT
       !.window_size = state.window_size,
       !.exploration_bonus = state.exploration_bonus,
       !.history = [c \in ChannelKeys |-> state.history[ChannelStr(c)]]]

\* Whether _load_state raises (and catches) an exception
load_fails(br, file, fault) ==
    \/ file.status = "partial"
    \/ /\ file.status = "complete"
       /\ \/ fault \in {"json", "bandit_total_scans"}
          \/ fault = "optimizer" /\ file.content[1].optimizer # <<>> /\ br.has_optimizer

\* NextGenBrain._load_state(): the brain, the bandit and the optimizer after it
load_state(br, b, o, file, fault) ==
    IF file.status = "absent" \/ file.status = "partial" \/ fault = "json"
      THEN [brain |-> br, bandit |-> b, optimizer |-> o]
    ELSE LET state == file.content[1]
             loads_optimizer == state.optimizer # <<>> /\ br.has_optimizer
         IN  IF fault = "bandit_total_scans"
               THEN [brain |-> br,
                     bandit |-> bandit_load_state_until_total_scans(b, state.bandit),
                     optimizer |-> o]
             ELSE IF fault = "optimizer" /\ loads_optimizer
               THEN [brain |-> br,
                     bandit |-> bandit_load_state(b, state.bandit),
                     optimizer |-> o]
             ELSE [brain |-> [br EXCEPT !.known_ap_macs = state.known_ap_macs],
                   bandit |-> bandit_load_state(b, state.bandit),
                   optimizer |-> IF loads_optimizer
                                   THEN optimizer_load_state(o, state.optimizer[1])
                                   ELSE o]

brain_select_channels_uncounted(br, b, k, scores, choice) ==
    LET n == IF br.mode = MODE_ASSIST THEN Max2(k, Len(b.channels) \div 2) ELSE k
    IN  [brain |-> br,
         bandit |-> after_select_channels(b, n),
         channels |-> select_channels(b, n, scores, choice)]

\* NextGenBrain.select_channels(k); scores and choice are the outcomes of the
\* bandit's random draws
brain_select_channels(br, b, k, scores, choice) ==
    LET n == IF br.mode = MODE_ASSIST THEN Max2(k, Len(b.channels) \div 2) ELSE k
        channels == select_channels(b, n, scores, choice)
    IN  [brain |-> [br EXCEPT !.epoch_channels_scanned = @ + Len(channels)],
         bandit |-> after_select_channels(b, n),
         channels |-> channels]

on_channel_scanned_updates_always(br, b, channel, had_activity) ==
    [brain |-> IF had_activity THEN [br EXCEPT !.epoch_channels_with_activity = @ + 1] ELSE br,
     bandit |-> update(b, channel, 0)]

\* NextGenBrain.on_channel_scanned(channel, had_activity)
on_channel_scanned(br, b, channel, had_activity) ==
    IF had_activity
      THEN [brain |-> [br EXCEPT !.epoch_channels_with_activity = @ + 1], bandit |-> b]
      ELSE [brain |-> br, bandit |-> update(b, channel, 0)]

epoch_metrics_after_reset(br, duration_secs) ==
    [duration_secs |-> duration_secs,
     new_unique_handshakes |-> 0,
     repeat_handshakes |-> 0,
     targets_attacked |-> 0,
     uncaptured_targets_attacked |-> 0,
     channels_scanned |-> 0,
     channels_with_activity |-> 0,
     new_aps_discovered |-> 0]

\* The epoch_metrics dict of on_epoch
epoch_metrics(br, duration_secs) ==
    [duration_secs |-> duration_secs,
     new_unique_handshakes |-> br.epoch_new_handshakes,
     repeat_handshakes |-> br.epoch_repeat_handshakes,
     targets_attacked |-> br.epoch_targets_attacked,
     uncaptured_targets_attacked |-> br.epoch_uncaptured_attacked,
     channels_scanned |-> br.epoch_channels_scanned,
     channels_with_activity |-> br.epoch_channels_with_activity,
     new_aps_discovered |-> br.epoch_new_aps]

on_epoch_saves_every_epoch(br, b, o, ctx, epoch_num, duration_secs, suggestion, outcome, file) ==
    LET observes == br.has_optimizer /\ br.current_timing # <<>>
        o2 == IF observes
                THEN observe(o, br.current_timing[1], RewardV2(epoch_metrics(br, duration_secs)))
                ELSE o
        br2 == [br EXCEPT
                  !.current_timing = IF observes THEN <<suggestion>> ELSE @,
                  !.epoch_new_handshakes = 0,
                  !.epoch_repeat_handshakes = 0,
                  !.epoch_targets_attacked = 0,
                  !.epoch_uncaptured_attacked = 0,
                  !.epoch_channels_scanned = 0,
                  !.epoch_channels_with_activity = 0,
                  !.epoch_new_aps = 0]
    IN  [brain |-> br2,
         optimizer |-> o2,
         state_file |-> IF epoch_num >= 0
                          THEN save_state(br2, b, o2, ctx, outcome, file)
                          ELSE file]

\* NextGenBrain.on_epoch(epoch_num, epoch_data): duration_secs is the time
\* since the epoch started, suggestion the outcome of optimizer.suggest()
on_epoch(br, b, o, ctx, epoch_num, duration_secs, suggestion, outcome, file) ==
    LET observes == br.has_optimizer /\ br.current_timing # <<>>
        o2 == IF observes
                THEN observe(o, br.current_timing[1], RewardV2(epoch_metrics(br, duration_secs)))
                ELSE o
        br2 == [br EXCEPT
                  !.current_timing = IF observes THEN <<suggestion>> ELSE @,
                  !.epoch_new_handshakes = 0,
                  !.epoch_repeat_handshakes = 0,
                  !.epoch_targets_attacked = 0,
                  !.epoch_uncaptured_attacked = 0,
                  !.epoch_channels_scanned = 0,
                  !.epoch_channels_with_activity = 0,
                  !.epoch_new_aps = 0]
    IN  [brain |-> br2,
         optimizer |-> o2,
         state_file |-> IF epoch_num % 10 = 0
                          THEN save_state(br2, b, o2, ctx, outcome, file)
                          ELSE file]

\* The caller before the first epoch and an agent that has not been used
LoopInit == [phase |-> "plan", plan |-> <<>>, next |-> 1, epoch |-> 0, handshakes |-> 0]

\* calls: operations invoked so far; of the last execute_attack: its attack
\* type, the flag it returned, the operations it issued and how many raised
\* No channel looked up yet
NoProbe == [channel |-> 0, band |-> "", round_trip |-> <<>>]

\* The brain has been constructed once, by the specification's Init
NoBoot == [n |-> 0, supported |-> <<>>, files |-> {}, fault |-> "none"]

\* _do_nextgen_loop before its first iteration
\* pc is the statement to run next, epoch is agent._epoch.epoch, position and
\* target are the places reached in selected_channels and channel_targets;
\* selects_since_epoch counts the select_channels calls since the last
\* on_epoch call, planned tells whether plan_attacks followed the last of them;
\* faults tells whether the agent's calls may raise and the exit flag be set
MainInit ==
    [faults |-> TRUE, pc |-> "recon", iterations |-> 0, epoch |-> 0, all_aps |-> <<>>, selected |-> <<>>,
     plan |-> <<>>, position |-> 1, target |-> 1, had_activity |-> FALSE,
     selects_since_epoch |-> 0, planned |-> FALSE]

AgentInit == [calls |-> 0, ok |-> FALSE, attack |-> ATTACK_SKIP, issued |-> 0, errors |-> 0]

----------------------------------------------------------------------------
(* The bandit driven through its public methods *)

\* ChannelBandit(channels, window_size=...): the sliding window of the bandit
window_size == 2

\* update is called at most MaxScans times
MaxScans == 3

\* update and boost stop while the stored histories hold MaxHistory entries
MaxHistory == 3

\* record_client_activity is called at most MaxActivity times
MaxActivity == 1

BanditChannels == <<1, 6, 36, 191>>

\* Outcomes of random.betavariate: Beta(alpha, beta) with alpha, beta >= 1 has
\* the whole of (0, 1) as its support whatever the history, so 0.1 and 0.9
\* are possible for every channel in every state
DrawValues == {1, 9}

\* Outcomes of random.random() * 0.3 in _select_assist
JitterValues == {0, 2}

UpdateRewards == {0}

BoostWeights == {3}

ClientCounts == {2}

\* 11 is not configured: boost ignores it
BoostChannels == {6, 11}

ActivityChannels == {36}

NoSelection == [k |-> 0, channels |-> <<>>]

TotalHistory(b) == SeqSum([i \in 1..Len(b.channels) |-> Len(b.history[b.channels[i]])])
                     + Len(b.history[11])

TotalActivity(b) == SeqSum([i \in 1..Len(b.channels) |-> Len(b.client_activity[b.channels[i]])])
                      + Len(b.client_activity[11])

SelUpdate ==
    \E channel \in Range(bandit.channels), reward \in UpdateRewards :
        /\ bandit.total_epochs < MaxScans
        /\ TotalHistory(bandit) < MaxHistory
        /\ bandit' = update(bandit, channel, reward)
        /\ selection' = NoSelection
        /\ UNCHANGED <<optVars, tacVars, brainVars, histVars>>

SelBoost ==
    \E channel \in BoostChannels, weight \in BoostWeights :
        /\ TotalHistory(bandit) < MaxHistory
        /\ bandit' = boost(bandit, channel, weight)
        /\ selection' = NoSelection
        /\ UNCHANGED <<optVars, tacVars, brainVars, histVars>>

SelRecordClientActivity ==
    \E channel \in ActivityChannels, client_count \in ClientCounts :
        /\ TotalActivity(bandit) < MaxActivity
        /\ bandit' = record_client_activity(bandit, channel, client_count)
        /\ selection' = NoSelection
        /\ UNCHANGED <<optVars, tacVars, brainVars, histVars>>

\* The outcomes of random.choice(unscanned) where select_channels(k) calls it
UnscannedChoices(b, k, scores) ==
    IF k < Len(b.channels) /\ needs_unscanned(b, top_ranked(b, k, scores))
      THEN unscanned_channels(b)
      ELSE {0}

\* select_channels(k) with every outcome of its random draws
SelSelectChannels ==
    /\ selection.k = 0
    /\ \E k \in 1..(Len(bandit.channels) + 1) :
       \E draw \in [Range(bandit.channels) -> DrawValues] :
       \E jitter \in [Range(bandit.channels) ->
                          IF bandit.mode = MODE_ASSIST THEN JitterValues ELSE {0}] :
       \E scores \in {channel_scores(bandit, draw, jitter)} :
       \E choice \in UnscannedChoices(bandit, k, scores) :
           /\ selection' = [k |-> k, channels |-> select_channels(bandit, k, scores, choice)]
           /\ bandit' = after_select_channels(bandit, k)
           /\ UNCHANGED <<optVars, tacVars, brainVars, histVars>>

----------------------------------------------------------------------------
(* The engine and its context driven through their public methods *)

\* TacticalEngine(max_interactions_per_epoch=..., max_targets_per_epoch=...)
max_interactions_per_epoch == 1

max_targets_per_epoch == 2

\* Bound on the interactions recorded in one run (over all MACs)
MaxSession == 2

\* Bound on the length of the AP list handed to plan_epoch
MaxAPs == 3

Client(mac, age) == [mac |-> mac, age |-> age]

AP(mac, encryption, clients, rssi, age, channel) ==
    [mac |-> mac, encryption |-> encryption, clients |-> clients,
     rssi |-> rssi, age |-> age, channel |-> channel]

\* The AP dicts the sensor supplies
\* A WPA2 network with a recently seen client, good signal
AP_aa == AP("aa", "WPA2", <<Client("c1", 10)>>, -60, 30, 1)

\* The same MAC in upper case, two clients (one stale), weak signal
AP_AA == AP("AA", "wpa2", <<Client("C1", 10), Client("c2", 500)>>, -100, 200, 1)

\* A WEP network without clients, not seen for a long time
AP_bb_wep == AP("bb", "WEP", <<>>, -100, 1000, 36)

\* An open network
AP_bb_open == AP("bb", "open", <<Client("c1", 10)>>, -40, 30, 36)

APs == {AP_aa, AP_AA, AP_bb_wep, AP_bb_open}

APLists ==
    UNION {{l \in [1..n -> APs] : \A i, j \in 1..n : l[i] = l[j] => i = j} : n \in 0..MaxAPs}

\* The record_handshake calls made: (mac, handshake_type, client_mac)
HandshakeCalls ==
    {<<"AA", "full", "">>, <<"aa", "full", "C1">>, <<"bb", "pmkid", "">>,
     <<"BB", "full", "c2">>}

EngineInit(mode) ==
    [max_interactions_per_epoch |-> max_interactions_per_epoch,
     max_targets_per_epoch |-> max_targets_per_epoch,
     mode |-> mode]

TotalInteractions(ctx) == ctx.interactions["aa"] + ctx.interactions["bb"]

\* The MACs whose epoch interactions have reached the engine's budget
Saturated(ctx, eng) ==
    {m \in Macs : get_epoch_interactions(ctx, m) >= eng.max_interactions_per_epoch}

Call(op, aps, plan, saturated) ==
    [op |-> op, aps |-> aps, plan |-> plan, saturated |-> saturated]

TacRecordHandshake ==
    /\ \E c \in HandshakeCalls :
          context' = record_handshake(context, c[1], c[2], c[3])
    /\ last_call' = Call("record_handshake", {}, <<>>, {})
    /\ UNCHANGED <<engine, optVars, banditVars, brainVars, histVars>>

TacRecordInteraction ==
    /\ TotalInteractions(context) < MaxSession
    /\ \E mac \in MacInputs :
          context' = record_interaction(context, mac)
    /\ last_call' = Call("record_interaction", {}, <<>>, {})
    /\ UNCHANGED <<engine, optVars, banditVars, brainVars, histVars>>

TacNewEpoch ==
    /\ context' = new_epoch(context)
    /\ last_call' = Call("new_epoch", {}, <<>>, {})
    /\ UNCHANGED <<engine, optVars, banditVars, brainVars, histVars>>

TacPlanEpoch ==
    /\ \E all_aps \in APLists :
       \E r \in {plan_epoch(context, engine, all_aps)} :
          /\ context' = r.context
          /\ last_call' = Call("plan_epoch", Range(all_aps), r.plan, Saturated(context, engine))
    /\ UNCHANGED <<engine, optVars, banditVars, brainVars, histVars>>

TacInit ==
    /\ context = ContextInit
    /\ \E mode \in VALID_MODES : engine = EngineInit(mode)
    /\ last_call = Call("init", {}, <<>>, {})
    /\ bandit = BanditInit(BanditChannels, window_size, MODE_ACTIVE)
    /\ selection = NoSelection
    /\ brain = BrainInit(MODE_ACTIVE, [recon_time |-> recon_lo])
    /\ loop = LoopInit
    /\ agent = AgentInit
    /\ state_file = NoStateFile
    /\ log = LogInit
    /\ restored = NoRestore
    /\ probe = NoProbe
    /\ boot = NoBoot
    /\ main = MainInit
    /\ optimizer = OptimizerInit
    /\ n_observed = 0

TacNext == TacRecordHandshake \/ TacRecordInteraction \/ TacNewEpoch \/ TacPlanEpoch

SpecTac == TacInit /\ [][TacNext]_vars

----------------------------------------------------------------------------
(* The bandit in each mode *)

SelInit ==
    /\ \E mode \in VALID_MODES : bandit = BanditInit(BanditChannels, window_size, mode)
    /\ selection = NoSelection
    /\ optimizer = OptimizerInit
    /\ n_observed = 0
    /\ context = ContextInit
    /\ engine = EngineInit(MODE_ACTIVE)
    /\ last_call = Call("init", {}, <<>>, {})
    /\ brain = BrainInit(MODE_ACTIVE, [recon_time |-> recon_lo])
    /\ loop = LoopInit
    /\ agent = AgentInit
    /\ state_file = NoStateFile
    /\ log = LogInit
    /\ restored = NoRestore
    /\ probe = NoProbe
    /\ boot = NoBoot
    /\ main = MainInit

SelNext == SelUpdate \/ SelBoost \/ SelRecordClientActivity \/ SelSelectChannels

SpecSelect == SelInit /\ [][SelNext]_vars

----------------------------------------------------------------------------
(* The bandit's histories: update, boost, record_client_activity and       *)
(* get_stats in any order, and a fresh bandit restored from get_state()    *)

\* update and boost record at most MaxLog observations
MaxLog == 4

HistChannels == <<1, 36>>

HistRewards == {0, 10}

\* The receiving bandit of load_state: same channel list, any window size,
\* exploration bonus and mode
FreshBandits(channels) ==
    {[BanditInit(channels, w, mode) EXCEPT
          !.exploration_bonus = IF w = window_size THEN 1 ELSE 2] :
        w \in {window_size, window_size + 1}, mode \in {MODE_ACTIVE, MODE_PASSIVE}}

TotalLog ==
    Len(log.observations[1]) + Len(log.observations[11]) + Len(log.observations[36])

HistUpdate ==
    \E channel \in {1, 11, 36}, reward \in HistRewards :
        /\ TotalLog < MaxLog
        /\ bandit' = update(bandit, channel, reward)
        /\ log' = [log EXCEPT !.observations[channel] = Append(@, reward)]
        /\ restored' = NoRestore
        /\ UNCHANGED <<selection, optVars, tacVars, brainVars, probe, boot, main>>

HistBoost ==
    \E channel \in {1, 11, 36}, weight \in BoostWeights :
        /\ TotalLog < MaxLog
        /\ bandit' = boost(bandit, channel, weight)
        /\ log' = [log EXCEPT !.observations[channel] =
                      IF channel \in Range(bandit.channels) THEN Append(@, weight) ELSE @]
        /\ restored' = NoRestore
        /\ UNCHANGED <<selection, optVars, tacVars, brainVars, probe, boot, main>>

HistRecordClientActivity ==
    \E channel \in ActivityChannels, client_count \in ClientCounts :
        /\ TotalActivity(bandit) < MaxActivity
        /\ bandit' = record_client_activity(bandit, channel, client_count)
        /\ restored' = NoRestore
        /\ UNCHANGED <<selection, log, optVars, tacVars, brainVars, probe, boot, main>>

\* get_stats(): the stored histories of the configured channels are truncated
HistGetStats ==
    /\ bandit' = truncate_all(bandit)
    /\ restored' = NoRestore
    /\ UNCHANGED <<selection, log, optVars, tacVars, brainVars, probe, boot, main>>

\* b2 = ChannelBandit(channels, ...); b2.load_state(b.get_state())
HistRestore ==
    /\ \E b2 \in FreshBandits(bandit.channels) :
           restored' = [restored EXCEPT
                           !.bandit = <<bandit_load_state(b2, bandit_get_state(bandit))>>]
    /\ UNCHANGED <<bandit, selection, log, optVars, tacVars, brainVars, probe, boot, main>>

HistInit ==
    /\ \E mode \in VALID_MODES : bandit = BanditInit(HistChannels, window_size, mode)
    /\ selection = NoSelection
    /\ optimizer = OptimizerInit
    /\ n_observed = 0
    /\ context = ContextInit
    /\ engine = EngineInit(MODE_ACTIVE)
    /\ last_call = Call("init", {}, <<>>, {})
    /\ brain = BrainInit(MODE_ACTIVE, [recon_time |-> recon_lo])
    /\ loop = LoopInit
    /\ agent = AgentInit
    /\ state_file = NoStateFile
    /\ log = LogInit
    /\ restored = NoRestore
    /\ probe = NoProbe
    /\ boot = NoBoot
    /\ main = MainInit

HistNext ==
    HistUpdate \/ HistBoost \/ HistRecordClientActivity \/ HistGetStats \/ HistRestore

SpecHist == HistInit /\ [][HistNext]_vars

----------------------------------------------------------------------------
(* channel_to_band and the 6 GHz conversions on every channel identifier *)

\* Channel identifiers run from 0 to MaxChannel
MaxChannel == 300

ProbeChannels == 0..MaxChannel

BandLookup ==
    /\ probe.band = ""
    /\ probe' = [probe EXCEPT !.band = channel_to_band(probe.channel)]
    /\ UNCHANGED <<optVars, tacVars, banditVars, brainVars, log, restored, boot, main>>

BandRoundTrip ==
    /\ probe.round_trip = <<>>
    /\ probe' = [probe EXCEPT
                    !.round_trip = <<offset_to_raw_6g(raw_6g_to_offset(probe.channel))>>]
    /\ UNCHANGED <<optVars, tacVars, banditVars, brainVars, log, restored, boot, main>>

BandInit ==
    /\ \E channel \in ProbeChannels : probe = [NoProbe EXCEPT !.channel = channel]
    /\ optimizer = OptimizerInit
    /\ n_observed = 0
    /\ context = ContextInit
    /\ engine = EngineInit(MODE_ACTIVE)
    /\ last_call = Call("init", {}, <<>>, {})
    /\ bandit = BanditInit(BanditChannels, window_size, MODE_ACTIVE)
    /\ selection = NoSelection
    /\ brain = BrainInit(MODE_ACTIVE, [recon_time |-> recon_lo])
    /\ loop = LoopInit
    /\ agent = AgentInit
    /\ state_file = NoStateFile
    /\ log = LogInit
    /\ restored = NoRestore
    /\ boot = NoBoot
    /\ main = MainInit

BandNext == BandLookup \/ BandRoundTrip

SpecBand == BandInit /\ [][BandNext]_vars

----------------------------------------------------------------------------
(* The optimizer driven through observe *)

OptInit ==
    /\ optimizer = OptimizerInit
    /\ n_observed = 0
    /\ context = ContextInit
    /\ engine = EngineInit(MODE_ACTIVE)
    /\ last_call = Call("init", {}, <<>>, {})
    /\ bandit = BanditInit(BanditChannels, window_size, MODE_ACTIVE)
    /\ selection = NoSelection
    /\ brain = BrainInit(MODE_ACTIVE, [recon_time |-> recon_lo])
    /\ loop = LoopInit
    /\ agent = AgentInit
    /\ state_file = NoStateFile
    /\ log = LogInit
    /\ restored = NoRestore
    /\ probe = NoProbe
    /\ boot = NoBoot
    /\ main = MainInit

\* o2 = BayesianOptimizer(param_bounds); o2.load_state(o.get_state())
OptRestore ==
    /\ restored' = [restored EXCEPT
                       !.optimizer = <<optimizer_load_state(OptimizerInit,
                                                            optimizer_get_state(optimizer))>>]
    /\ UNCHANGED <<optVars, log, tacVars, banditVars, brainVars, probe, boot, main>>

OptNext == Observe \/ OptRestore

SpecOpt == OptInit /\ [][OptNext]_vars

\* o2 = BayesianOptimizer(param_bounds); o2.load_state(state) for the saved
\* state of the optimizer with some of its keys missing
OptRestoreMissing ==
    /\ restored.optimizer = <<>>
    /\ \E present \in SUBSET OptimizerStateKeys :
          restored' = [restored EXCEPT
                          !.optimizer = <<optimizer_load_state_get(OptimizerInit,
                                              optimizer_get_state(optimizer), present)>>]
    /\ UNCHANGED <<optVars, log, tacVars, banditVars, brainVars, probe, boot, main>>

OptLoadNext == Observe \/ OptRestore \/ OptRestoreMissing

SpecOptLoad == OptInit /\ [][OptLoadNext]_vars

----------------------------------------------------------------------------
(* The brain driven through the per-epoch protocol: plan_attacks, then     *)
(* execute_attack once for each plan entry, then on_epoch; on_handshake    *)
(* arrives at any point                                                    *)

\* on_epoch is called at most MaxEpochs times
MaxEpochs == 1

\* on_handshake is called at most MaxHandshakes times
MaxHandshakes == 1

\* The sensor's channels after deduplication and the ch <= 177 filter
BrainChannels == <<1, 6, 36>>

\* The lists of visible access points handed to plan_attacks; the sensor
\* reports one MAC in two spellings in the third
VisibleAPLists ==
    {<<>>, <<AP_aa>>, <<AP_aa, AP_AA>>, <<AP_bb_wep, AP_AA>>, <<AP_bb_open>>}

\* (ap_mac, channel) of the handshake events
HandshakeEvents == {<<"AA", 1>>, <<"bb", 0>>}

\* Seconds from epoch start to on_epoch
Durations == {60}

\* Which operations of the agent raise during one attack
Raises ==
    [associate : BOOLEAN,
     broadcast_deauth : BOOLEAN,
     deauth : SUBSET UNION {1..Len(ap.clients) : ap \in APs}]

BrainPlanAttacks ==
    /\ loop.phase = "plan"
    /\ loop.epoch < MaxEpochs
    /\ \E access_points \in VisibleAPLists :
       \E r \in {plan_attacks(brain, bandit, context, engine, access_points)} :
           /\ brain' = r.brain
           /\ bandit' = r.bandit
           /\ context' = r.context
           /\ loop' = [loop EXCEPT !.phase = "attack", !.plan = r.plan, !.next = 1]
    /\ UNCHANGED <<engine, last_call, selection, optVars, agent, state_file, histVars>>

BrainExecuteAttack ==
    /\ loop.phase = "attack"
    /\ loop.next <= Len(loop.plan)
    /\ \E raises \in Raises :
       \E r \in {execute_attack(context, loop.plan[loop.next].ap,
                                loop.plan[loop.next].attack, raises)} :
           /\ context' = r.context
           /\ agent' = [calls |-> agent.calls + r.calls, ok |-> r.ok,
                        attack |-> loop.plan[loop.next].attack,
                        issued |-> r.calls, errors |-> r.errors]
    /\ loop' = [loop EXCEPT !.next = @ + 1]
    /\ UNCHANGED <<engine, last_call, banditVars, optVars, brain, state_file, histVars>>

BrainOnHandshake ==
    /\ loop.handshakes < MaxHandshakes
    /\ \E event \in HandshakeEvents :
       \E r \in {on_handshake(brain, bandit, context, event[1], event[2])} :
           /\ brain' = r.brain
           /\ bandit' = r.bandit
           /\ context' = r.context
    /\ loop' = [loop EXCEPT !.handshakes = @ + 1]
    /\ UNCHANGED <<engine, last_call, selection, optVars, agent, state_file, histVars>>

BrainOnEpoch ==
    /\ loop.phase = "attack"
    /\ loop.next > Len(loop.plan)
    /\ \E duration_secs \in Durations, suggestion \in ParamDicts, outcome \in SaveOutcomes :
       \E r \in {on_epoch(brain, bandit, optimizer, context, loop.epoch,
                          duration_secs, suggestion, outcome, state_file)} :
           /\ brain' = r.brain
           /\ optimizer' = r.optimizer
           /\ state_file' = r.state_file
    /\ loop' = [loop EXCEPT !.phase = "plan", !.plan = <<>>, !.next = 1, !.epoch = @ + 1]
    /\ UNCHANGED <<n_observed, tacVars, banditVars, agent, histVars>>

BrainSpecInit ==
    /\ \E mode \in VALID_MODES, timing \in ParamDicts :
           /\ brain = BrainInit(mode, timing)
           /\ bandit = BanditInit(BrainChannels, window_size, mode)
           /\ engine = EngineInit(mode)
    /\ context = ContextInit
    /\ optimizer = OptimizerInit
    /\ n_observed = 0
    /\ last_call = Call("init", {}, <<>>, {})
    /\ selection = NoSelection
    /\ loop = LoopInit
    /\ agent = AgentInit
    /\ state_file = NoStateFile
    /\ log = LogInit
    /\ restored = NoRestore
    /\ probe = NoProbe
    /\ boot = NoBoot
    /\ main = MainInit

BrainNext == BrainPlanAttacks \/ BrainExecuteAttack \/ BrainOnHandshake \/ BrainOnEpoch

SpecBrain == BrainSpecInit /\ [][BrainNext]_vars

----------------------------------------------------------------------------
(* The brain run through an epoch and then constructed again, as after a   *)
(* restart of the program, from whatever the state file holds              *)

\* agent._supported_channels: missing, the device's list, the same with each
\* channel reported by both radios, and an unordered list with a 6 GHz
\* channel in offset form
SensorLists == {<<>>, <<1, 6, 36>>, <<1, 1, 6, 6, 36, 36>>, <<36, 191, 1, 6, 191>>}

\* The MACs with a capture file in the handshake directory
HandshakeDirs == {{}, {"aa"}}

\* NextGenBrain.__init__(config, agent) with the bandit window and the
\* engine's limits of the configuration in use
brain_construct(mode, supported, files, timing, file, fault) ==
    LET loaded == load_state(BrainInit(mode, timing),
                             BanditInit(construct_channels(supported), window_size, mode),
                             OptimizerInit, file, fault)
    IN  [brain |-> loaded.brain,
         bandit |-> loaded.bandit,
         optimizer |-> loaded.optimizer,
         context |-> CaptureContextInit(files),
         engine |-> EngineInit(mode)]

\* The program is started again after its first epoch, with the same
\* configuration, a new agent and the state file as the last run left it
BrainConstruct ==
    /\ loop.phase = "plan"
    /\ loop.epoch = 1
    /\ \E supported \in SensorLists, files \in HandshakeDirs,
          timing \in ParamDicts, fault \in LoadFaults :
       \E r \in {brain_construct(brain.mode, supported, files, timing, state_file, fault)} :
           /\ brain' = r.brain
           /\ bandit' = r.bandit
           /\ optimizer' = r.optimizer
           /\ context' = r.context
           /\ engine' = r.engine
           /\ boot' = [n |-> boot.n + 1, supported |-> supported,
                       files |-> files, fault |-> fault]
    /\ loop' = [LoopInit EXCEPT !.phase = "constructed"]
    /\ agent' = AgentInit
    /\ UNCHANGED <<n_observed, last_call, selection, state_file, log, restored, probe, main>>

BootNext == BrainNext \/ BrainConstruct

SpecBoot == BrainSpecInit /\ [][BootNext]_vars

----------------------------------------------------------------------------
(* main.py, _do_nextgen_loop: one action per phase of the loop body.  The  *)
(* calls on the agent may raise, and the exit flag may be found set at     *)
(* each of the loop's checks.                                              *)

\* The loop body is entered at most MaxIterations times
MaxIterations == 2

\* ng_cfg.get('channels_per_epoch', 5)
channels_per_epoch == 5

\* What a call on the agent does: return, raise an exception, or raise the
\* one whose message holds "wifi.interface not set"
AgentRaises == {"none", "error", "wifi"}

\* Which operations of the agent raise during one attack of the loop: none
\* or all of them
MainRaises ==
    {r \in Raises : /\ r.associate = r.broadcast_deauth
                    /\ r.deauth \in {{}, UNION {1..Len(ap.clients) : ap \in APs}}}

\* The outcomes of should_exit() or should_return_to_menu(), and of a call on
\* the agent
ExitFlags(m) == IF m.faults THEN BOOLEAN ELSE {FALSE}

RaisedBy(m) == IF m.faults THEN AgentRaises ELSE {"none"}

\* The except clause of the loop body, and the loop going round
MainExcept(m, raised) ==
    [m EXCEPT !.pc = "recon",
              !.iterations = @ + 1,
              !.epoch = IF raised = "wifi" THEN @ + 1 ELSE @,
              !.all_aps = <<>>, !.selected = <<>>, !.plan = <<>>,
              !.position = 1, !.target = 1, !.had_activity = FALSE]

\* break, and the loop condition found false
MainExit(m) ==
    [m EXCEPT !.pc = "done",
              !.all_aps = <<>>, !.selected = <<>>, !.plan = <<>>,
              !.position = 1, !.target = 1, !.had_activity = FALSE]

\* channel_targets of the channel at the current position
channel_targets(m) ==
    FilterSeq(m.plan, {t \in Range(m.plan) : t.ap.channel = m.selected[m.position]})

\* The loop condition and agent.recon()
MainRecon ==
    /\ main.pc = "recon"
    /\ main.iterations < MaxIterations
    /\ \E exit \in ExitFlags(main), raised \in RaisedBy(main) :
           main' = IF exit THEN MainExit(main)
                   ELSE IF raised # "none" THEN MainExcept(main, raised)
                   ELSE [main EXCEPT !.pc = "get_access_points"]
    /\ UNCHANGED <<optVars, tacVars, banditVars, brainVars, log, restored, probe, boot>>

\* The exit check after recon and agent.get_access_points()
MainGetAccessPoints ==
    /\ main.pc = "get_access_points"
    /\ \E exit \in ExitFlags(main), raised \in RaisedBy(main), all_aps \in VisibleAPLists :
           main' = IF exit THEN MainExit(main)
                   ELSE IF raised # "none" THEN MainExcept(main, raised)
                   ELSE [main EXCEPT !.pc = "select_channels", !.all_aps = all_aps]
    /\ UNCHANGED <<optVars, tacVars, banditVars, brainVars, log, restored, probe, boot>>

\* The exit check after get_access_points and nextgen.select_channels(k):
\* with k at least the number of channels the bandit draws nothing
MainSelectChannels ==
    /\ main.pc = "select_channels"
    /\ channels_per_epoch >= Len(bandit.channels)
    /\ \E exit \in ExitFlags(main) :
       \E r \in {brain_select_channels(brain, bandit, channels_per_epoch,
                                       [c \in Range(bandit.channels) |-> 0],
                                       bandit.channels[1])} :
           IF exit
             THEN /\ main' = MainExit(main)
                  /\ UNCHANGED <<brain, bandit>>
             ELSE /\ brain' = r.brain
                  /\ bandit' = r.bandit
                  /\ main' = [main EXCEPT !.pc = "plan_attacks",
                                          !.selected = r.channels,
                                          !.selects_since_epoch = @ + 1,
                                          !.planned = FALSE]
    /\ UNCHANGED <<optVars, tacVars, selection, loop, agent, state_file,
                   log, restored, probe, boot>>

\* nextgen.plan_attacks(all_aps)
MainPlanAttacks ==
    /\ main.pc = "plan_attacks"
    /\ \E r \in {plan_attacks(brain, bandit, context, engine, main.all_aps)} :
           /\ brain' = r.brain
           /\ bandit' = r.bandit
           /\ context' = r.context
           /\ main' = [main EXCEPT !.pc = "set_channel", !.plan = r.plan,
                                   !.planned = TRUE, !.position = 1]
    /\ UNCHANGED <<optVars, engine, last_call, selection, loop, agent, state_file,
                   log, restored, probe, boot>>

\* The head of the loop over selected_channels: the exit check,
\* agent.set_channel(ch), and on_channel_scanned for a channel without targets
MainSetChannel ==
    /\ main.pc = "set_channel"
    /\ IF main.position > Len(main.selected)
         THEN /\ main' = [main EXCEPT !.pc = "on_epoch"]
              /\ UNCHANGED <<brain, bandit>>
         ELSE \E exit \in ExitFlags(main), raised \in RaisedBy(main) :
              \E r \in {on_channel_scanned(brain, bandit, main.selected[main.position], FALSE)} :
                  IF exit \/ raised # "none" \/ channel_targets(main) # <<>>
                    THEN /\ main' = IF exit THEN MainExit(main)
                                    ELSE IF raised # "none" THEN MainExcept(main, raised)
                                    ELSE [main EXCEPT !.pc = "execute_attack", !.target = 1,
                                                      !.had_activity = FALSE]
                         /\ UNCHANGED <<brain, bandit>>
                    ELSE /\ brain' = r.brain
                         /\ bandit' = r.bandit
                         /\ main' = [main EXCEPT !.position = @ + 1]
    /\ UNCHANGED <<optVars, tacVars, selection, loop, agent, state_file,
                   log, restored, probe, boot>>

\* The loop over channel_targets: the exit check and nextgen.execute_attack,
\* and on_channel_scanned(ch, had_activity) when the loop is left
MainExecuteAttack ==
    /\ main.pc = "execute_attack"
    /\ \E exit \in ExitFlags(main), raises \in MainRaises :
       \E targets \in {channel_targets(main)} :
           IF exit \/ main.target > Len(targets)
             THEN \E r \in {on_channel_scanned(brain, bandit, main.selected[main.position],
                                               main.had_activity)} :
                      /\ brain' = r.brain
                      /\ bandit' = r.bandit
                      /\ main' = IF main.target > Len(targets)
                                   THEN [main EXCEPT !.pc = "set_channel", !.position = @ + 1]
                                   ELSE MainExit(main)
                      /\ UNCHANGED <<context, agent>>
             ELSE \E r \in {execute_attack(context, targets[main.target].ap,
                                           targets[main.target].attack, raises)} :
                      /\ context' = r.context
                      /\ agent' = [calls |-> agent.calls + r.calls, ok |-> r.ok,
                                   attack |-> targets[main.target].attack,
                                   issued |-> r.calls, errors |-> r.errors]
                      /\ main' = [main EXCEPT !.target = @ + 1,
                                              !.had_activity = @ \/ r.ok]
                      /\ UNCHANGED <<brain, bandit>>
    /\ UNCHANGED <<optVars, engine, last_call, selection, loop, state_file,
                   log, restored, probe, boot>>

\* The exit check after the channels, nextgen.on_epoch and agent.next_epoch()
MainOnEpoch ==
    /\ main.pc = "on_epoch"
    /\ \E exit \in ExitFlags(main), raised \in RaisedBy(main), duration_secs \in Durations,
          suggestion \in ParamDicts, outcome \in SaveOutcomes :
       \E r \in {on_epoch(brain, bandit, optimizer, context, main.epoch,
                          duration_secs, suggestion, outcome, state_file)} :
           IF exit
             THEN /\ main' = MainExit(main)
                  /\ UNCHANGED <<brain, optimizer, state_file>>
             ELSE /\ brain' = r.brain
                  /\ optimizer' = r.optimizer
                  /\ state_file' = r.state_file
                  /\ main' = [MainExcept(main, raised) EXCEPT
                                !.epoch = IF raised = "error" THEN main.epoch
                                          ELSE main.epoch + 1,
                                !.selects_since_epoch = 0]
    /\ UNCHANGED <<n_observed, tacVars, banditVars, loop, agent,
                   log, restored, probe, boot>>

MainNext ==
    \/ MainRecon
    \/ MainGetAccessPoints
    \/ MainSelectChannels
    \/ MainPlanAttacks
    \/ MainSetChannel
    \/ MainExecuteAttack
    \/ MainOnEpoch

SpecMain == BrainSpecInit /\ [][MainNext]_vars

\* The loop with an agent whose calls never raise and the exit flag never
\* set: every iteration runs the per-epoch protocol to its end
EpochInit ==
    /\ \E mode \in VALID_MODES, timing \in ParamDicts :
           /\ brain = BrainInit(mode, timing)
           /\ bandit = BanditInit(BrainChannels, window_size, mode)
           /\ engine = EngineInit(mode)
    /\ context = ContextInit
    /\ optimizer = OptimizerInit
    /\ n_observed = 0
    /\ last_call = Call("init", {}, <<>>, {})
    /\ selection = NoSelection
    /\ loop = LoopInit
    /\ agent = AgentInit
    /\ state_file = NoStateFile
    /\ log = LogInit
    /\ restored = NoRestore
    /\ probe = NoProbe
    /\ boot = NoBoot
    /\ main = [MainInit EXCEPT !.faults = FALSE]

SpecEpoch == EpochInit /\ [][MainNext]_vars

----------------------------------------------------------------------------
\* C1: after any sequence of observe calls from an empty optimizer the three
\* history arrays have the same length, that length is at most
\* MAX_OBSERVATIONS, and once more than MAX_OBSERVATIONS observations have
\* been fed it is exactly MAX_OBSERVATIONS.
C1_HistoryCapped ==
    /\ Len(optimizer.X_history) = Len(optimizer.y_history)
    /\ Len(optimizer.y_history) = Len(optimizer.param_history)
    /\ Len(optimizer.X_history) <= MAX_OBSERVATIONS
    /\ n_observed > MAX_OBSERVATIONS => Len(optimizer.X_history) = MAX_OBSERVATIONS

\* A state after the cap was exceeded and the history trimmed
C1_Witness ==
    /\ n_observed > MAX_OBSERVATIONS
    /\ Len(optimizer.X_history) = MAX_OBSERVATIONS

\* C2: after every observe call some entry of y_history equals best_reward
\* (the best observation survives eviction).
C2_BestPreserved ==
    n_observed > 0 => \E i \in 1..Len(optimizer.y_history) : optimizer.y_history[i] = optimizer.best_reward

----------------------------------------------------------------------------
(* Claims about plan_epoch and score_target *)

PlanAPs(plan) == {plan[i].ap : i \in 1..Len(plan)}

IsOpen(ap) == Upper(ap.encryption) \in {"", "OPEN"}

\* C3: every entry of a plan returned by plan_epoch has score > 0 and an
\* attack other than SKIP, the entries are in non-increasing score order and
\* there are at most max_targets_per_epoch of them.
C3_PlanWellFormed ==
    last_call.op = "plan_epoch" =>
        LET plan == last_call.plan
        IN  /\ \A i \in 1..Len(plan) : plan[i].score > 0 /\ plan[i].attack # ATTACK_SKIP
            /\ \A i, j \in 1..Len(plan) : i < j => plan[i].score >= plan[j].score
            /\ Len(plan) <= engine.max_targets_per_epoch

\* A plan of two or more entries with different scores, cut or filtered from a longer list
C3_Witness ==
    /\ last_call.op = "plan_epoch"
    /\ Len(last_call.plan) >= 2
    /\ last_call.plan[1].score > last_call.plan[2].score
    /\ Cardinality(last_call.aps) > Len(last_call.plan)

\* C4: in ACTIVE mode, once record_handshake(mac) was called without a
\* client_mac, score_target of an (encrypted) AP with that MAC is -1000 and no
\* plan returned by plan_epoch holds that AP, whatever clients the AP lists.
C4_CapturedIsSkipped ==
    engine.mode = MODE_ACTIVE =>
        \A ap \in APs :
            (/\ has_handshake(context, ap.mac)
             /\ context.captured_clients[Lower(ap.mac)] = {}
             /\ ~IsOpen(ap))
            => /\ score_target(context, engine, ap) = -2000
               /\ last_call.op = "plan_epoch" => ap \notin PlanAPs(last_call.plan)

\* The AP of a plan_epoch call is at budget when the call is made: its MAC
\* had max_interactions_per_epoch epoch interactions, it is not captured, not
\* open and lists clients
SaturatedTarget(ap) ==
    /\ last_call.op = "plan_epoch"
    /\ engine.mode = MODE_ACTIVE
    /\ ap \in last_call.aps
    /\ Lower(ap.mac) \in last_call.saturated
    /\ ~has_handshake(context, ap.mac)
    /\ ~IsOpen(ap)
    /\ ap.clients # <<>>

\* C5 as claimed: a plan_epoch call that follows max_interactions_per_epoch
\* record_interaction calls for an uncaptured AP with clients returns a plan
\* without that AP.
C5_SaturatedIsExcluded ==
    \A ap \in APs : SaturatedTarget(ap) => ap \notin PlanAPs(last_call.plan)

\* C5 as amended: at budget, score_target of the AP is -100 as long as the
\* epoch counters stand; plan_epoch resets them before it scores, so the call
\* leaves every epoch counter at zero and keeps the AP in the plan whenever
\* its score over the reset counters is > 0 and the plan is not cut at
\* max_targets_per_epoch.
C5_SaturationEndsAtPlanEpoch ==
    /\ engine.mode = MODE_ACTIVE =>
          \A ap \in APs :
              (/\ get_epoch_interactions(context, ap.mac) >= engine.max_interactions_per_epoch
               /\ ~has_handshake(context, ap.mac)
               /\ ~IsOpen(ap))
              => score_target(context, engine, ap) = -200
    /\ last_call.op = "plan_epoch" => \A m \in Macs : context.epoch_interactions[m] = 0
    /\ \A ap \in APs :
          (SaturatedTarget(ap) /\ score_target(new_epoch(context), engine, ap) > 0)
          => \/ ap \in PlanAPs(last_call.plan)
             \/ Len(last_call.plan) = engine.max_targets_per_epoch

\* An AP at budget that the following plan_epoch call plans again
C5_Witness ==
    \E ap \in APs : SaturatedTarget(ap) /\ ap \in PlanAPs(last_call.plan)

----------------------------------------------------------------------------
(* Claims about the per-epoch protocol of the brain *)

C7_PassiveNeverTransmits ==
    brain.mode = MODE_PASSIVE =>
        /\ \A ap \in APs : select_attack(context, engine, ap) = ATTACK_SKIP
        /\ loop.plan = <<>>
        /\ agent.calls = 0

\* A PASSIVE brain at the end of an epoch in which plan_attacks saw the WPA2
\* network with a fresh client, and the actuator untouched
C7_Witness ==
    /\ brain.mode = MODE_PASSIVE
    /\ engine.mode = MODE_PASSIVE
    /\ "aa" \in brain.known_ap_macs
    /\ loop.epoch >= 1
    /\ score_target(context, engine, AP_aa) > 0
    /\ agent.calls = 0

----------------------------------------------------------------------------
(* Claims about select_channels *)

SelectedBands == {channel_to_band(selection.channels[i]) : i \in 1..Len(selection.channels)}

ConfiguredBands == {channel_to_band(bandit.channels[i]) : i \in 1..Len(bandit.channels)}

\* C8: in ACTIVE and ASSIST mode, for 3 <= k < |channels|, the list returned
\* by select_channels(k) holds a channel of every band that has a configured
\* channel.
C8_EveryBandSelected ==
    (/\ bandit.mode # MODE_PASSIVE
     /\ selection.k >= 3
     /\ selection.k < Len(bandit.channels))
        => ConfiguredBands \subseteq SelectedBands

\* C9: in every mode, for 1 <= k < |channels|, if some configured channel has
\* never been scanned then the list returned by select_channels(k) holds a
\* never-scanned channel.
C9_UnscannedSelected ==
    (/\ selection.k >= 1
     /\ selection.k < Len(bandit.channels)
     /\ unscanned_channels(bandit) # {})
        => Range(selection.channels) \cap unscanned_channels(bandit) # {}

\* C10: select_channels(k) returns all configured channels when
\* k >= |channels|, and otherwise exactly k pairwise distinct configured
\* channels, in every mode and after both replacement rules.
C10_SelectionDistinctConfigured ==
    selection.k > 0 =>
        IF selection.k >= Len(bandit.channels)
          THEN selection.channels = bandit.channels
          ELSE /\ Len(selection.channels) = selection.k
               /\ \A i, j \in 1..Len(selection.channels) :
                      selection.channels[i] = selection.channels[j] => i = j
               /\ Range(selection.channels) \subseteq Range(bandit.channels)

\* A call with k = 3 of 4 in ASSIST mode whose result went through the
\* band-diversity replacement: an unscanned channel exists and the unscanned
\* rule leaves one selected, yet none is in the returned list
C10_Witness ==
    /\ bandit.mode = MODE_ASSIST
    /\ selection.k = 3
    /\ Len(selection.channels) = 3
    /\ unscanned_channels(bandit) # {}
    /\ Range(selection.channels) \cap unscanned_channels(bandit) = {}
    /\ ConfiguredBands \subseteq SelectedBands

----------------------------------------------------------------------------
(* Claims about the bandit's histories and its saved state *)

Successes(observations) == Cardinality({i \in 1..Len(observations) : observations[i] > 0})

\* C11: after any interleaving of update and boost calls the windowed
\* statistics of a channel are the success and failure counts over exactly
\* its most recent min(n, W) recorded observations, so successes + failures
\* <= W and alpha and beta lie in 1..W+1.
C11_WindowIsMostRecent ==
    \A c \in ChannelKeys :
        LET recent == TakeLast(log.observations[c],
                               Min2(Len(log.observations[c]), bandit.window_size))
            stats == get_windowed_stats(bandit, c)
        IN  /\ stats = <<Successes(recent), Len(recent) - Successes(recent)>>
            /\ stats[1] + stats[2] <= bandit.window_size
            /\ posterior(bandit, c).alpha \in 1..(bandit.window_size + 1)
            /\ posterior(bandit, c).beta \in 1..(bandit.window_size + 1)

\* A channel whose history was truncated and has grown past the window again,
\* with successes and failures among its observations
C11_Witness ==
    \E c \in Range(bandit.channels) :
        /\ Len(bandit.history[c]) < Len(log.observations[c])
        /\ Len(bandit.history[c]) > bandit.window_size
        /\ Successes(log.observations[c]) \in 1..(Len(log.observations[c]) - 1)

----------------------------------------------------------------------------
(* Claims about the capture context and the attack routing *)

\* C12: in every reachable state of the capture context, has_pmkid(m)
\* implies has_handshake(m) for every MAC m.
C12_PmkidImpliesHandshake ==
    \A m \in MacInputs \cup {"BB"} : has_pmkid(context, m) => has_handshake(context, m)

\* A MAC whose PMKID was recorded and then a full handshake with a client
C12_Witness ==
    \E m \in Macs :
        /\ has_pmkid(context, m)
        /\ context.captured[m] = "full"
        /\ context.captured_clients[m] # {}

\* C13: record_interaction(mac) increases the session and the epoch counter
\* of that MAC by exactly one and changes no other counter; new_epoch() sets
\* every epoch counter to zero and leaves the session counters, the captured
\* set, the PMKID set and the captured-client sets unchanged; session
\* counters never decrease.
C13_InteractionFrame ==
    [][/\ last_call'.op = "record_interaction" =>
            \E mac \in MacInputs :
                /\ get_session_interactions(context', mac)
                      = get_session_interactions(context, mac) + 1
                /\ get_epoch_interactions(context', mac)
                      = get_epoch_interactions(context, mac) + 1
                /\ \A m \in Macs \ {Lower(mac)} :
                      /\ context'.interactions[m] = context.interactions[m]
                      /\ context'.epoch_interactions[m] = context.epoch_interactions[m]
       /\ last_call'.op = "new_epoch" =>
            /\ \A m \in Macs : context'.epoch_interactions[m] = 0
            /\ context'.interactions = context.interactions
            /\ context'.captured = context.captured
            /\ context'.pmkids = context.pmkids
            /\ context'.captured_clients = context.captured_clients
       /\ \A m \in Macs : context'.interactions[m] >= context.interactions[m]]_vars

\* new_epoch() has just run on a context with interactions and captures
C13_Witness ==
    /\ last_call.op = "new_epoch"
    /\ \E m \in Macs : context.interactions[m] > 0
    /\ context.pmkids # {}
    /\ \E m \in Macs : context.captured_clients[m] # {}

\* The routing table of select_attack
RoutingTable(mode, pmkid_known, has_clients) ==
    CASE mode = MODE_PASSIVE -> ATTACK_SKIP
      [] mode = MODE_ASSIST /\ ~has_clients -> ATTACK_ASSOC_ONLY
      [] mode = MODE_ASSIST /\ has_clients -> ATTACK_BROADCAST_DEAUTH
      [] mode = MODE_ACTIVE /\ pmkid_known /\ ~has_clients -> ATTACK_SKIP
      [] mode = MODE_ACTIVE /\ pmkid_known /\ has_clients -> ATTACK_DEAUTH_ONLY
      [] mode = MODE_ACTIVE /\ ~pmkid_known /\ ~has_clients -> ATTACK_ASSOC_ONLY
      [] mode = MODE_ACTIVE /\ ~pmkid_known /\ has_clients -> ATTACK_ASSOC_DEAUTH

\* C14: select_attack agrees with the routing table for every combination of
\* mode, has_pmkid(mac) and client-list emptiness.
C14_RoutingTable ==
    \A mode \in VALID_MODES, ap \in APs :
        select_attack(context, [engine EXCEPT !.mode = mode], ap)
            = RoutingTable(mode, has_pmkid(context, ap.mac), ap.clients # <<>>)

\* An ACTIVE engine that knows the PMKID of an AP seen with and without clients
C14_Witness ==
    /\ engine.mode = MODE_ACTIVE
    /\ has_pmkid(context, "bb")
    /\ ~has_pmkid(context, "aa")
    /\ select_attack(context, engine, AP_bb_open) = ATTACK_DEAUTH_ONLY
    /\ select_attack(context, engine, AP_bb_wep) = ATTACK_SKIP
    /\ select_attack(context, engine, AP_aa) = ATTACK_ASSOC_DEAUTH

----------------------------------------------------------------------------
(* Claims about saving and restoring the bandit *)

\* C15: for a bandit b reached by update, boost and record_client_activity
\* calls, a fresh bandit b2 with the same channel list has, after
\* b2.load_state(b.get_state()), the same total epoch counter, the same
\* per-channel scan counts and the same per-channel windowed successes and
\* failures as b.
C15_BanditRoundTrip ==
    restored.bandit # <<>> =>
        LET b2 == restored.bandit[1]
        IN  /\ b2.total_epochs = bandit.total_epochs
            /\ \A c \in ChannelKeys : b2.total_scans[c] = bandit.total_scans[c]
            /\ get_stats(b2) = get_stats(bandit)

\* A bandit with a history longer than its window, restored into a bandit
\* that was constructed with a larger window
C15_Witness ==
    /\ restored.bandit # <<>>
    /\ bandit.total_epochs > 0
    /\ \E c \in Range(bandit.channels) :
          /\ Len(bandit.history[c]) > bandit.window_size
          /\ Successes(bandit.history[c]) \in 1..(Len(bandit.history[c]) - 1)
          /\ Len(restored.bandit[1].history[c]) > restored.bandit[1].window_size
    /\ \E b2 \in FreshBandits(bandit.channels) :
          /\ b2.window_size # bandit.window_size
          /\ restored.bandit[1] = bandit_load_state(b2, bandit_get_state(bandit))

\* C16: after load_state(b.get_state()) the receiving bandit's window size,
\* exploration bonus and mode equal those of b, also when the receiving
\* bandit was constructed with different values.
C16_LoadRestoresParameters ==
    restored.bandit # <<>> =>
        /\ restored.bandit[1].window_size = bandit.window_size
        /\ restored.bandit[1].exploration_bonus = bandit.exploration_bonus
        /\ restored.bandit[1].mode = bandit.mode

----------------------------------------------------------------------------
(* Claims about the optimizer's saved state and its best reward *)

\* C17: for an optimizer o reached by observe calls, a fresh optimizer o2
\* over the same parameter space has, after o2.load_state(o.get_state()),
\* X_history, y_history, param_history, best_reward and best_params equal
\* to o's.
C17_OptimizerRoundTrip ==
    restored.optimizer # <<>> =>
        LET o2 == restored.optimizer[1]
        IN  /\ o2.X_history = optimizer.X_history
            /\ o2.y_history = optimizer.y_history
            /\ o2.param_history = optimizer.param_history
            /\ o2.best_reward = optimizer.best_reward
            /\ o2.best_params = optimizer.best_params

\* An optimizer that has evicted observations, restored into a fresh one
C17_Witness ==
    /\ restored.optimizer # <<>>
    /\ n_observed > MAX_OBSERVATIONS
    /\ Len(restored.optimizer[1].y_history) = MAX_OBSERVATIONS
    /\ restored.optimizer[1].best_reward > 0
    /\ restored.optimizer[1].best_params # <<>>

MaxOf(S) == CHOOSE x \in S : \A y \in S : y <= x

\* C18: after every observe call on an optimizer that started empty,
\* best_reward >= max(y_history), best_reward is the maximum reward ever
\* observed, and best_reward never decreases from one observe to the next.
C18_BestRewardIsMaximum ==
    [][/\ optimizer'.y_history # <<>> =>
            /\ optimizer'.best_reward >= SeqMax(optimizer'.y_history)
            /\ optimizer'.best_reward = MaxOf(log'.rewards)
       /\ optimizer'.best_reward >= optimizer.best_reward]_vars

\* The best reward is no longer in y_history: it is strictly above the maximum
\* of the retained rewards
C18_Witness ==
    /\ n_observed > MAX_OBSERVATIONS
    /\ optimizer.best_reward = MaxReward
    /\ optimizer.best_reward > SeqMax(optimizer.y_history)
    /\ Cardinality(log.rewards) > 1

----------------------------------------------------------------------------
(* Claims about the actuator's errors and the state file *)

\* C19: for every attack variant, if every actuator operation issued for the
\* attack signals an error, NextGenBrain.execute_attack returns False.
C19_FailureIsReported ==
    (agent.issued > 0 /\ agent.errors = agent.issued) => ~agent.ok

\* C20: the file at the fixed path holds either the complete previous
\* checkpoint or the complete new one, never a partial or empty one.
C20_StateFileNeverPartial ==
    state_file.status # "partial"

----------------------------------------------------------------------------
(* Claims about the effects of update, boost and on_handshake *)

\* C29: update(channel, reward) appends one observation to the channel's
\* history and increases its scan counter and the global epoch counter by
\* one; boost on a configured channel appends one observation and leaves
\* every scan counter and the epoch counter unchanged, so a channel that was
\* only boosted still counts as never scanned; boost on a channel that is
\* not configured changes nothing.
C29_UpdateBoostFrame ==
    \A channel \in ChannelKeys :
        /\ \A reward \in HistRewards :
              LET u == update(bandit, channel, reward)
              IN  /\ u.history[channel] = Append(bandit.history[channel], reward)
                  /\ u.total_scans[channel] = bandit.total_scans[channel] + 1
                  /\ u.total_epochs = bandit.total_epochs + 1
                  /\ \A c \in ChannelKeys \ {channel} :
                        /\ u.history[c] = bandit.history[c]
                        /\ u.total_scans[c] = bandit.total_scans[c]
                  /\ u.client_activity = bandit.client_activity
        /\ \A weight \in BoostWeights :
              LET v == boost(bandit, channel, weight)
              IN  IF channel \in Range(bandit.channels)
                    THEN /\ v.history[channel] = Append(bandit.history[channel], weight)
                         /\ \A c \in ChannelKeys \ {channel} : v.history[c] = bandit.history[c]
                         /\ v.total_scans = bandit.total_scans
                         /\ v.total_epochs = bandit.total_epochs
                         /\ v.client_activity = bandit.client_activity
                         /\ unscanned_channels(v) = unscanned_channels(bandit)
                    ELSE v = bandit

\* One channel has been boosted and never scanned, another has been scanned
C29_Witness ==
    /\ \E c \in Range(bandit.channels) :
          /\ bandit.history[c] # <<>>
          /\ c \in unscanned_channels(bandit)
    /\ \E c \in Range(bandit.channels) : bandit.total_scans[c] > 0
    /\ bandit.total_epochs > 0

\* The on_handshake calls considered: MACs in both spellings, channel 0
\* (unknown) and two channel numbers
C30_Calls == {<<mac, ch>> : mac \in {"aa", "AA", "bb", "BB"}, ch \in {0, 1, 36}}

\* C30: on_handshake(mac, channel) increments the epoch new-handshake
\* counter exactly when has_handshake(mac) was false before the call and the
\* repeat counter otherwise, afterwards has_handshake(mac) holds, and the
\* bandit is updated with reward 1.0 on that channel exactly when
\* channel > 0; with channel = 0 the bandit is unchanged.
C30_OnHandshakeCounts ==
    \A call \in C30_Calls :
        LET mac == call[1]
            channel == call[2]
            r == on_handshake(brain, bandit, context, mac, channel)
            was_known == \E m \in {"aa", "AA", "bb", "BB"} :
                            Lower(m) = Lower(mac) /\ has_handshake(context, m)
        IN  /\ r.brain.epoch_new_handshakes
                  = brain.epoch_new_handshakes + (IF was_known THEN 0 ELSE 1)
            /\ r.brain.epoch_repeat_handshakes
                  = brain.epoch_repeat_handshakes + (IF was_known THEN 1 ELSE 0)
            /\ has_handshake(r.context, mac)
            /\ IF channel > 0
                 THEN /\ r.bandit.history[channel] = Append(bandit.history[channel], 10)
                      /\ r.bandit.total_scans[channel] = bandit.total_scans[channel] + 1
                      /\ r.bandit.total_epochs = bandit.total_epochs + 1
                 ELSE r.bandit = bandit

\* A handshake for "AA" on channel 1 has been counted as new, so that one
\* more for "aa" is a repeat
C30_Witness ==
    /\ brain.epoch_new_handshakes = 1
    /\ has_handshake(context, "aa")
    /\ bandit.total_scans[1] = 1
    /\ on_handshake(brain, bandit, context, "aa", 0).brain.epoch_repeat_handshakes = 1

----------------------------------------------------------------------------
(* Claims about the target scores.  Scores are in units of 0.5. *)

\* Open networks in every spelling, with and without clients, at both ends
\* of the signal range, for every MAC
OpenAPs ==
    {AP(mac, encryption, clients, rssi, age, 1) :
        mac \in MacInputs, encryption \in {"", "open", "OPEN"},
        clients \in {<<>>, <<Client("c1", 10)>>, <<Client("c1", 10), Client("c2", 500)>>},
        rssi \in {-40, -100}, age \in {30, 1000}}

\* C24: in every mode and every context state score_target returns exactly
\* -500 for an AP whose encryption is OPEN or empty, whatever its clients,
\* RSSI, capture state and interaction counters; such an AP never appears in
\* a plan_epoch output.
C24_OpenIsUnattackable ==
    /\ \A mode \in VALID_MODES, ap \in OpenAPs \cup {a \in APs : IsOpen(a)} :
          score_target(context, [engine EXCEPT !.mode = mode], ap) = -1000
    /\ \A i \in 1..Len(last_call.plan) : ~IsOpen(last_call.plan[i].ap)

\* plan_epoch was handed an open AP whose MAC is captured and has been
\* attacked, and returned a plan without it
C24_Witness ==
    /\ last_call.op = "plan_epoch"
    /\ AP_bb_open \in last_call.aps
    /\ last_call.plan # <<>>
    /\ has_handshake(context, "bb")
    /\ get_session_interactions(context, "bb") > 0

\* The interaction budgets considered
C25_Budgets == 1..(MaxSession + 1)

\* C25: in ACTIVE mode, for an uncaptured, non-open AP, each
\* record_interaction lowers score_target by exactly 1.0 while the AP's
\* epoch interactions stay below max_interactions_per_epoch, and
\* score_target is exactly -100 whenever its epoch interactions are at or
\* above max_interactions_per_epoch.
C25_DiminishingReturns ==
    \A ap \in APs, budget \in C25_Budgets :
        LET eng == [engine EXCEPT !.mode = MODE_ACTIVE,
                                  !.max_interactions_per_epoch = budget]
            after == record_interaction(context, ap.mac)
        IN  (~IsOpen(ap) /\ ~has_handshake(context, ap.mac)) =>
               /\ get_epoch_interactions(after, ap.mac) < budget =>
                     score_target(after, eng, ap) = score_target(context, eng, ap) - 2
               /\ get_epoch_interactions(context, ap.mac) >= budget =>
                     score_target(context, eng, ap) = -200

\* An uncaptured AP with two session interactions, one of them in this epoch:
\* below a budget of 2 and at a budget of 1
C25_Witness ==
    /\ ~has_handshake(context, "aa")
    /\ get_session_interactions(context, "aa") = 2
    /\ get_epoch_interactions(context, "aa") = 1
    /\ score_target(context, [engine EXCEPT !.mode = MODE_ACTIVE,
                                            !.max_interactions_per_epoch = 2], AP_aa) > 0
    /\ score_target(context, [engine EXCEPT !.mode = MODE_ACTIVE,
                                            !.max_interactions_per_epoch = 1], AP_aa) = -200

----------------------------------------------------------------------------
(* Claims about the order of the calls within an epoch *)

NoRaise == [associate |-> FALSE, broadcast_deauth |-> FALSE, deauth |-> {}]

C28_Call(op, ap, attack, mac, channel) ==
    [op |-> op, ap |-> ap, attack |-> attack, mac |-> mac, channel |-> channel]

\* The execute_attack(ap, variant) and on_handshake(mac, channel) calls
\* that are swapped: an attack and two handshakes on one MAC, on different
\* channels, and a handshake on another MAC with the channel unknown
C28_Calls ==
    <<C28_Call("execute_attack", AP_aa, ATTACK_ASSOC_DEAUTH, "", 0),
      C28_Call("on_handshake", AP_aa, ATTACK_SKIP, "AA", 1),
      C28_Call("on_handshake", AP_aa, ATTACK_SKIP, "aa", 36),
      C28_Call("on_handshake", AP_aa, ATTACK_SKIP, "bb", 0)>>

\* The orchestrator's state after one of the calls
C28_After(st, call) ==
    IF call.op = "execute_attack"
      THEN [st EXCEPT !.context =
                  execute_attack(st.context, call.ap, call.attack, NoRaise).context]
      ELSE LET r == on_handshake(st.brain, st.bandit, st.context, call.mac, call.channel)
           IN  [brain |-> r.brain, bandit |-> r.bandit, context |-> r.context]

\* What the claim compares
C28_Observed(st) ==
    [captured |-> captured_macs(st.context),
     interactions |-> st.context.interactions,
     epoch_interactions |-> st.context.epoch_interactions,
     epoch_new_handshakes |-> st.brain.epoch_new_handshakes,
     epoch_repeat_handshakes |-> st.brain.epoch_repeat_handshakes,
     total_scans |-> st.bandit.total_scans,
     windowed |-> [c \in ChannelKeys |-> get_windowed_stats(st.bandit, c)]]

\* C28: within one epoch, swapping two adjacent calls drawn from
\* execute_attack and on_handshake yields the same capture context, the same
\* epoch handshake counters and the same per-channel scan counts and
\* windowed success and failure counts.
C28_CallsCommute ==
    \A st \in {[brain |-> brain, bandit |-> bandit, context |-> context]} :
    \A i \in 1..Len(C28_Calls) :
    \A j \in (i + 1)..Len(C28_Calls) :
    \A first_second \in {C28_After(C28_After(st, C28_Calls[i]), C28_Calls[j])} :
    \A second_first \in {C28_After(C28_After(st, C28_Calls[j]), C28_Calls[i])} :
        C28_Observed(first_second) = C28_Observed(second_first)

\* In the middle of an epoch: an attack and a handshake on the same MAC have
\* already happened
C28_Witness ==
    /\ loop.phase = "attack"
    /\ loop.next > 1
    /\ has_handshake(context, "aa")
    /\ get_epoch_interactions(context, "aa") > 0
    /\ brain.epoch_new_handshakes > 0

----------------------------------------------------------------------------
(* Claims about the bands *)

\* C26: channel_to_band returns 6G for every member of CHANNELS_6G, 5G for
\* every member of CHANNELS_5G and 2G for 1..14; the three channel sets are
\* pairwise disjoint, every offset-form 6 GHz identifier is >= 191, and
\* offset_to_raw_6g(raw_6g_to_offset(r)) = r.
C26_BandOfChannel ==
    /\ probe.band # "" =>
          /\ probe.band \in Range(BandNames)
          /\ probe.channel \in CHANNELS_6G => probe.band = "6G"
          /\ probe.channel \in CHANNELS_5G => probe.band = "5G"
          /\ probe.channel \in CHANNELS_2G => probe.band = "2G"
    /\ probe.channel \in CHANNELS_6G =>
          /\ probe.channel >= 191
          /\ probe.channel \notin CHANNELS_5G \cup CHANNELS_2G
    /\ probe.channel \in CHANNELS_5G => probe.channel \notin CHANNELS_2G
    /\ probe.round_trip # <<>> => probe.round_trip = <<probe.channel>>

\* An offset-form 6 GHz channel whose raw number is also a 2.4 GHz channel
\* number, looked up and converted
C26_Witness ==
    /\ probe.channel \in CHANNELS_6G
    /\ offset_to_raw_6g(probe.channel) \in CHANNELS_2G
    /\ probe.band = "6G"
    /\ probe.round_trip = <<probe.channel>>

----------------------------------------------------------------------------
(* Claims about the construction of the brain and the state file *)

\* C21: a Brain constructed (same mode, same channel list) after a
\* checkpoint was saved holds every part of the persisted state: the bandit
\* histories and counters, the optimizer history and best record, the
\* known_ap_macs set and the captured-MAC set.
C21_CheckpointRecovered ==
    [][(/\ boot'.n = boot.n + 1
        /\ state_file.status = "complete"
        /\ boot'.fault = "none"
        /\ bandit'.channels = state_file.content[1].bandit.channels) =>
            LET state == state_file.content[1]
            IN  /\ \A c \in ChannelKeys :
                      /\ bandit'.history[c] = state.bandit.history[ChannelStr(c)]
                      /\ bandit'.total_scans[c] = state.bandit.total_scans[ChannelStr(c)]
                /\ bandit'.total_epochs = state.bandit.total_epochs
                /\ state.optimizer # <<>> =>
                      optimizer_get_state(optimizer') = state.optimizer[1]
                /\ brain'.known_ap_macs = state.known_ap_macs
                /\ \A m \in state.captured_macs : has_handshake(context', m)]_vars

\* C22: if _load_state fails at any point, construction still completes and
\* the bandit, the optimizer and known_ap_macs are exactly as in a Brain
\* constructed with no state file.
C22_FailedLoadLeavesFreshState ==
    [][(/\ boot'.n = boot.n + 1
        /\ load_fails(brain, state_file, boot'.fault)) =>
            \E timing \in ParamDicts :
                LET fresh == brain_construct(brain.mode, boot'.supported, boot'.files,
                                             timing, NoStateFile, "none")
                IN  /\ bandit' = fresh.bandit
                    /\ optimizer' = fresh.optimizer
                    /\ brain'.known_ap_macs = fresh.brain.known_ap_macs]_vars

\* C23 as stated: construction deduplicates the sensor's channel list and
\* keeps the 6 GHz channels given in offset form: every supplied channel of
\* CHANNELS_6G is an arm of the constructed bandit, and no channel is an arm
\* twice.
C23_OffsetFormPreserved ==
    boot.n >= 1 =>
        /\ \A c \in Range(boot.supported) :
              c \in CHANNELS_6G => c \in Range(bandit.channels)
        /\ \A i, j \in 1..Len(bandit.channels) :
              bandit.channels[i] = bandit.channels[j] => i = j

\* C23 amended: the arms of the constructed bandit are the distinct supplied
\* channels up to 177 in ascending order, each once (channels 1..11 when the
\* sensor supplies none); every channel above 177, the 6 GHz channels in
\* offset form included, is dropped.
C23_ArmsAreDistinctUpTo177 ==
    boot.n >= 1 =>
        LET supplied == IF boot.supported = <<>> THEN 1..11 ELSE Range(boot.supported)
        IN  /\ Range(bandit.channels) = {c \in supplied : c <= 177}
            /\ \A i, j \in 1..Len(bandit.channels) :
                  i < j => bandit.channels[i] < bandit.channels[j]

\* A brain constructed from a list that repeats a 6 GHz channel in offset form
C23_Witness ==
    /\ boot.n >= 1
    /\ \E i, j \in 1..Len(boot.supported) :
          i # j /\ boot.supported[i] = boot.supported[j]
                /\ boot.supported[i] \in CHANNELS_6G
    /\ bandit.channels = <<1, 6, 36>>

----------------------------------------------------------------------------
(* Claims about the main loop *)

\* C27: the main loop follows the per-epoch protocol on every path: each
\* select_channels call is followed by plan_attacks and then by exactly one
\* on_epoch before the next select_channels call, iterations aborted by an
\* exception included.
C27_ProtocolOnEveryPath ==
    /\ main.selects_since_epoch <= 1
    /\ main.pc \in {"set_channel", "execute_attack", "on_epoch"} => main.planned

----------------------------------------------------------------------------
(* Claims about the calls of one epoch *)

\* The loop calls on_channel_scanned in this step (it moves on to the next
\* selected channel), and the had_activity flag it passes
ChannelScannedStep == main'.position = main.position + 1

ScannedWithActivity == main.pc = "execute_attack" /\ main.had_activity

\* C31: on_channel_scanned(ch, had_activity=False) performs exactly one
\* bandit update(ch, 0.0) and leaves the channels-with-activity counter
\* unchanged; on_channel_scanned(ch, had_activity=True) adds one to that
\* counter and leaves the bandit unchanged.
C31_ChannelScannedEffect ==
    [][ChannelScannedStep =>
         LET ch == main.selected[main.position]
         IN  IF ScannedWithActivity
               THEN /\ brain'.epoch_channels_with_activity =
                          brain.epoch_channels_with_activity + 1
                    /\ bandit' = bandit
               ELSE /\ brain' = brain
                    /\ bandit'.history[ch] = Append(bandit.history[ch], 0)
                    /\ bandit'.total_scans[ch] = bandit.total_scans[ch] + 1
                    /\ bandit'.total_epochs = bandit.total_epochs + 1
                    /\ \A c \in ChannelKeys \ {ch} :
                          /\ bandit'.history[c] = bandit.history[c]
                          /\ bandit'.total_scans[c] = bandit.total_scans[c]
                    /\ bandit'.client_activity = bandit.client_activity]_vars

\* One channel of the epoch was scanned with activity and another without
C31_Witness ==
    /\ main.pc = "on_epoch"
    /\ brain.epoch_channels_with_activity >= 1
    /\ \E c \in ChannelKeys : bandit.total_scans[c] >= 1

\* nextgen.on_epoch(agent._epoch.epoch, ...) is called in this step
OnEpochStep == main.pc = "on_epoch" /\ main'.pc = "recon"

\* C32: after every on_epoch(n, ...) call all epoch counters of the brain are
\* zero and known_ap_macs is unchanged; the state file is written only when n
\* is divisible by 10, and then it holds the checkpoint of the brain or what
\* a failed write left; a failing save neither prevents the reset nor raises.
C32_OnEpochResetsAndSaves ==
    [][OnEpochStep =>
         /\ brain'.epoch_new_handshakes = 0
         /\ brain'.epoch_repeat_handshakes = 0
         /\ brain'.epoch_targets_attacked = 0
         /\ brain'.epoch_uncaptured_attacked = 0
         /\ brain'.epoch_channels_scanned = 0
         /\ brain'.epoch_channels_with_activity = 0
         /\ brain'.epoch_new_aps = 0
         /\ brain'.known_ap_macs = brain.known_ap_macs
         /\ main'.epoch = main.epoch + 1
         /\ main.epoch % 10 # 0 => state_file' = state_file
         /\ main.epoch % 10 = 0 =>
               \/ /\ state_file'.status = "complete"
                  /\ state_file'.content[1].mode = brain.mode
                  /\ state_file'.content[1].known_ap_macs = brain.known_ap_macs
                  /\ state_file'.content[1].bandit = bandit_get_state(bandit)
               \/ state_file'.status = "partial"
               \/ state_file' = state_file]_vars

\* on_epoch(0, ...) with a failing save and on_epoch(1, ...) have returned
C32_Witness ==
    /\ main.pc = "recon"
    /\ main.epoch = 2
    /\ state_file.status = "partial"
    /\ brain.epoch_channels_scanned = 0
    /\ brain.known_ap_macs # {}

\* C33: with an optimizer, each on_epoch call records exactly one
\* observation, the reward of the epoch just ended paired with the timing
\* that was current during it, and only then replaces current_timing by the
\* new suggestion; without an optimizer on_epoch changes no timing.
C33_ObserveThenSuggest ==
    [][OnEpochStep =>
         IF brain.has_optimizer /\ brain.current_timing # <<>>
           THEN LET n == Len(optimizer'.param_history)
                    rewards ==
                        {RewardV2([duration_secs |-> d,
                                   new_unique_handshakes |-> brain.epoch_new_handshakes,
                                   repeat_handshakes |-> brain.epoch_repeat_handshakes,
                                   targets_attacked |-> brain.epoch_targets_attacked,
                                   uncaptured_targets_attacked |->
                                       brain.epoch_uncaptured_attacked,
                                   channels_scanned |-> brain.epoch_channels_scanned,
                                   channels_with_activity |->
                                       brain.epoch_channels_with_activity,
                                   new_aps_discovered |-> brain.epoch_new_aps]) :
                           d \in Durations}
                IN  /\ n = Len(optimizer.param_history) + 1
                    /\ Len(optimizer'.y_history) = n
                    /\ Len(optimizer'.X_history) = n
                    /\ optimizer'.param_history[n] = brain.current_timing[1]
                    /\ optimizer'.X_history[n] = normalize(brain.current_timing[1])
                    /\ optimizer'.y_history[n] \in rewards
                    /\ \A i \in 1..(n - 1) :
                          /\ optimizer'.y_history[i] = optimizer.y_history[i]
                          /\ optimizer'.param_history[i] = optimizer.param_history[i]
                    /\ brain'.current_timing \in {<<p>> : p \in ParamDicts}
           ELSE /\ optimizer' = optimizer
                /\ brain'.current_timing = brain.current_timing]_vars

\* Two epochs were observed and the second suggestion differs from the timing
\* of the second epoch
C33_Witness ==
    /\ main.pc = "recon"
    /\ Len(optimizer.param_history) = 2
    /\ brain.current_timing # <<optimizer.param_history[2]>>
    /\ optimizer.param_history[1] # optimizer.param_history[2]

\* nextgen.execute_attack(ap, attack_type) is called in this step
ExecuteAttackStep == main.pc = "execute_attack" /\ main'.target = main.target + 1

\* C34: execute_attack with SKIP returns False, records no interaction and
\* makes no call on the actuator; with any other attack type and a non-empty
\* MAC it adds one to the session and the epoch interaction counter of that
\* MAC, whether or not the actuator succeeds, and returns the actuator's flag.
C34_ExecuteAttackEffect ==
    [][/\ \A ap \in APs, raises \in MainRaises :
            LET r == execute_attack(context, ap, ATTACK_SKIP, raises)
            IN  ~r.ok /\ r.calls = 0 /\ r.context = context
       /\ ExecuteAttackStep =>
            LET t == channel_targets(main)[main.target]
                mac == Lower(t.ap.mac)
            IN  /\ t.attack # ATTACK_SKIP
                /\ mac # ""
                /\ context'.interactions[mac] = context.interactions[mac] + 1
                /\ context'.epoch_interactions[mac] = context.epoch_interactions[mac] + 1
                /\ \A m \in Macs \ {mac} :
                      /\ context'.interactions[m] = context.interactions[m]
                      /\ context'.epoch_interactions[m] = context.epoch_interactions[m]
                /\ context'.captured = context.captured
                /\ \E raises \in MainRaises :
                      LET a == adapter_execute_attack(t.ap, t.attack, raises)
                      IN  /\ agent'.ok = a.ok
                          /\ agent'.issued = a.calls
                          /\ agent'.errors = a.errors]_vars

\* An attack whose every call on the actuator raised: the flag is False and
\* the interaction is counted
C34_Witness ==
    /\ main.pc = "execute_attack"
    /\ main.target > 1
    /\ agent.issued > 0
    /\ ~agent.ok
    /\ \E m \in Macs : context.epoch_interactions[m] >= 1

----------------------------------------------------------------------------
(* Claims about the optimizer's history *)

\* observe is called in this step
ObserveStep == n_observed' = n_observed + 1

Observations(o) ==
    {<<o.X_history[i], o.y_history[i], o.param_history[i]>> : i \in 1..Len(o.X_history)}

\* C36: the three arrays stay aligned: after every observe call they have one
\* length, X_history[i] is the normalisation of param_history[i], and every
\* index holds the vector, the reward and the parameters of one observe call
\* (an observation already held or the one just made), also after evictions.
C36_ArraysAligned ==
    [][ObserveStep =>
         /\ Len(optimizer'.X_history) = Len(optimizer'.y_history)
         /\ Len(optimizer'.y_history) = Len(optimizer'.param_history)
         /\ \A i \in 1..Len(optimizer'.X_history) :
               optimizer'.X_history[i] = normalize(optimizer'.param_history[i])
         /\ \E p \in ParamDicts, r \in Rewards :
               /\ <<normalize(p), r, p>> \in Observations(optimizer')
               /\ Observations(optimizer') \subseteq
                     Observations(optimizer) \cup {<<normalize(p), r, p>>}]_vars

\* A full history after an eviction whose entries differ in parameters and
\* in reward
C36_Witness ==
    /\ n_observed > MAX_OBSERVATIONS
    /\ Cardinality(Observations(optimizer)) = MAX_OBSERVATIONS
    /\ Cardinality(Range(optimizer.y_history)) > 1
    /\ Cardinality(Range(optimizer.param_history)) > 1

----------------------------------------------------------------------------
(* Claims about the attacks of a session *)

\* The score of an AP before its first interaction, in units of 0.5
ZeroInteractionScore(ap) ==
    score_target([context EXCEPT !.interactions[Lower(ap.mac)] = 0,
                                 !.epoch_interactions[Lower(ap.mac)] = 0],
                 engine, ap)

\* C37: in ACTIVE mode an uncaptured AP is attacked in finitely many epochs:
\* once its session interactions reach its zero-interaction score S0 its
\* score is <= 0, and every uncaptured AP of a plan has fewer than S0 session
\* interactions, so that with one execution per planned epoch it is planned
\* in at most ceil(S0) epochs.
C37_FinitelyManyAttacks ==
    engine.mode = MODE_ACTIVE =>
        /\ \A ap \in APs :
              (/\ ~has_handshake(context, ap.mac)
               /\ context.interactions[Lower(ap.mac)] * 2 >= ZeroInteractionScore(ap)) =>
                  score_target(context, engine, ap) <= 0
        /\ last_call.op = "plan_epoch" =>
              \A i \in 1..Len(last_call.plan) :
                  LET ap == last_call.plan[i].ap
                  IN  ~has_handshake(context, ap.mac) =>
                         context.interactions[Lower(ap.mac)] * 2 < ZeroInteractionScore(ap)

\* An uncaptured AP with a zero-interaction score of 1.0, handed to plan_epoch
\* after one interaction in an earlier epoch, is not in the plan
C37_Witness ==
    /\ engine.mode = MODE_ACTIVE
    /\ last_call.op = "plan_epoch"
    /\ AP_bb_wep \in last_call.aps
    /\ AP_bb_wep \notin PlanAPs(last_call.plan)
    /\ ~has_handshake(context, "bb")
    /\ context.interactions["bb"] = 1
    /\ ZeroInteractionScore(AP_bb_wep) = 2

----------------------------------------------------------------------------
(* Claims about the inputs of the reward *)

\* C38: at every on_epoch call reached through the per-epoch protocol the
\* inputs of the reward are consistent: uncaptured_targets_attacked <=
\* targets_attacked <= max_targets_per_epoch and channels_with_activity <=
\* channels_scanned, so that the efficiency and the coverage term of the
\* reward (in thousandths) lie in [0, 1].
C38_RewardInputsConsistent ==
    main.pc = "on_epoch" =>
        /\ 0 <= brain.epoch_uncaptured_attacked
        /\ brain.epoch_uncaptured_attacked <= brain.epoch_targets_attacked
        /\ brain.epoch_targets_attacked <= engine.max_targets_per_epoch
        /\ 0 <= brain.epoch_channels_with_activity
        /\ brain.epoch_channels_with_activity <= brain.epoch_channels_scanned
        /\ \A d \in Durations :
              LET m == epoch_metrics(brain, d)
                  efficiency == (m.uncaptured_targets_attacked * 1000)
                                    \div Max2(m.targets_attacked, 1)
                  coverage == (m.channels_with_activity * 1000)
                                  \div Max2(m.channels_scanned, 1)
              IN  efficiency \in 0..1000 /\ coverage \in 0..1000

\* An epoch with a full plan of uncaptured targets and a channel with activity
C38_Witness ==
    /\ main.pc = "on_epoch"
    /\ brain.epoch_targets_attacked = engine.max_targets_per_epoch
    /\ brain.epoch_uncaptured_attacked >= 1
    /\ brain.epoch_channels_with_activity >= 1
    /\ brain.epoch_channels_with_activity < brain.epoch_channels_scanned

----------------------------------------------------------------------------
(* Claims about restoring the optimizer *)

\* C39: load_state tolerates missing fields without breaking the optimizer
\* invariants: whatever subset of the keys is absent from the state dict,
\* after load_state the three arrays have equal length and best_reward >=
\* max(y_history) when y_history is not empty.
C39_LoadKeepsInvariants ==
    restored.optimizer # <<>> =>
        LET o2 == restored.optimizer[1]
        IN  /\ Len(o2.X_history) = Len(o2.y_history)
            /\ Len(o2.y_history) = Len(o2.param_history)
            /\ o2.y_history # <<>> => o2.best_reward >= SeqMax(o2.y_history)

----------------------------------------------------------------------------
(* Claims about the stored histories of the bandit *)

\* C40: stored bandit history is bounded: after every select_channels(k)
\* call, for every k (k >= |channels| included) and every preceding sequence
\* of update and boost calls, the stored history of each configured channel
\* holds at most window_size entries.
C40_StoredHistoryBounded ==
    selection.k > 0 =>
        \A c \in Range(bandit.channels) : Len(bandit.history[c]) <= bandit.window_size

====
